---- MODULE Spec2Model ----
(***************************************************************************)
(* Model of the fiscal week/month labelling of helper.py                   *)
(* (get_week_and_month_label).                                             *)
(*                                                                         *)
(* Dates are proleptic Gregorian ordinals, as datetime.date.toordinal()    *)
(* gives them (0001-01-01 is 1 and is a Monday).  The Hangul suffixes of   *)
(* the labels are written in ASCII: "juCha" stands for the week suffix of  *)
(* f"{week_number}..." and "wol" for the month suffix of strftime("%m..").  *)
(***************************************************************************)
EXTENDS Integers, Sequences, FiniteSets, TLC

VARIABLES date_obj, week_label, month_label, step, pc

\* One tool invocation: the tool called, its arguments, the position in its
\* code, the backend requests issued and failed so far, the list fetched by
\* the current fetch_all_* loop, the list being built and the way it ended.
VARIABLES tool, selected_date, name_known, tpc, requests, failures,
          users, idx, offset, total, found, outcome, error

\* The member name the tool is called with.
VARIABLES assigned_to

\* The sums of one member's fetched issues: the report that sums, the issue
\* just summed, the sums so far, and the entry or exception that ends it.
VARIABLES reducer, include_unagreed, issue, acc, count, apc, exc, member

\* One threshold report: the report called, the sums of the members it is
\* given, its threshold, the days elapsed in the year, and what it returns.
VARIABLES report, all_members, threshold, days_elapsed, below, rpc, returned

\* One backend filter: the tool that builds it, whether a member name was
\* given, the id the name resolved to, and the params dict handed to
\* fetch_all_issues.
VARIABLES query_tool, name_given, member_id, params, qpc

\* One fetch_all_* loop: the resource fetched, the number of matching records
\* the backend holds, the list built so far, the offset of the next page, the
\* page requests issued, the pages received, the last answer of request(),
\* the position in the loop and the message of the RuntimeError raised.
VARIABLES resource, records, total_issues, page_offset, paged_log,
          received, result, fetch_pc, fetch_error

\* One scan of journals by a find_* tool: the tool, the date range, the
\* number of the issue being scanned, the journals scanned so far, the
\* remembered time at which the agreement was cleared, the list built and
\* the position in the tool.
VARIABLES scan_tool, start_obj, end_obj, issue_id, seen,
          agreement_cleared_date, violations, spc

calVars == <<date_obj, week_label, month_label, step, pc>>

toolVars == <<tool, selected_date, name_known, tpc, requests, failures,
              users, idx, offset, total, found, outcome, error, assigned_to>>

aggVars == <<reducer, include_unagreed, issue, acc, count, apc, exc, member>>

thrVars == <<report, all_members, threshold, days_elapsed, below, rpc, returned>>

filterVars == <<query_tool, name_given, member_id, params, qpc>>

fetchVars == <<resource, records, total_issues, page_offset, paged_log,
               received, result, fetch_pc, fetch_error>>

\* The variables of the later sections.
scanVars == <<scan_tool, start_obj, end_obj, issue_id, seen,
              agreement_cleared_date, violations, spc>>

restVars == <<filterVars, fetchVars, scanVars>>

vars == <<calVars, toolVars, aggVars, thrVars, restVars>>

\* First and last year of the dates the function is called with.
MinYear == 2020
MaxYear == 2030
\* Number of days after a date over which its month label is followed: a
\* yearly cycle short of the days in which the same label comes round again.
Window == 300

(***************************************************************************)
(* datetime.date                                                           *)
(***************************************************************************)
IsLeap(y) == y % 4 = 0 /\ (y % 100 # 0 \/ y % 400 = 0)

DaysInMonthTab == <<31, 28, 31, 30, 31, 30, 31, 31, 30, 31, 30, 31>>

DaysBeforeMonthTab == <<0, 31, 59, 90, 120, 151, 181, 212, 243, 273, 304, 334>>

DaysInMonth(y, m) == IF m = 2 /\ IsLeap(y) THEN 29 ELSE DaysInMonthTab[m]

DaysBeforeYear(y) ==
    (y - 1) * 365 + ((y - 1) \div 4) - ((y - 1) \div 100) + ((y - 1) \div 400)

DaysBeforeMonth(y, m) ==
    DaysBeforeMonthTab[m] + (IF m > 2 /\ IsLeap(y) THEN 1 ELSE 0)

\* date(y, m, d).toordinal()
ToOrdinal(y, m, d) == DaysBeforeYear(y) + DaysBeforeMonth(y, m) + d

\* date.fromordinal(n), as [year, month, day]
Ord2Ymd(n) ==
    LET n0   == n - 1
        n400 == n0 \div 146097
        r400 == n0 % 146097
        n100 == r400 \div 36524
        r100 == r400 % 36524
        n4   == r100 \div 1461
        r4   == r100 % 1461
        n1   == r4 \div 365
        r1   == r4 % 365
        year == n400 * 400 + 1 + n100 * 100 + n4 * 4 + n1
    IN  IF n1 = 4 \/ n100 = 4
        THEN [year |-> year - 1, month |-> 12, day |-> 31]
        ELSE LET leap == n1 = 3 /\ (n4 # 24 \/ n100 = 3)
                 m0   == (r1 + 50) \div 32
                 p0   == DaysBeforeMonthTab[m0]
                           + (IF m0 > 2 /\ leap THEN 1 ELSE 0)
                 back == p0 > r1
                 month == IF back THEN m0 - 1 ELSE m0
                 preceding ==
                     IF back
                     THEN p0 - (DaysInMonthTab[m0 - 1]
                                  + (IF m0 - 1 = 2 /\ leap THEN 1 ELSE 0))
                     ELSE p0
             IN  [year |-> year, month |-> month, day |-> r1 - preceding + 1]

YearOf(d) == Ord2Ymd(d).year

MonthOf(d) == Ord2Ymd(d).month

DayOf(d) == Ord2Ymd(d).day

\* date.weekday(): Monday is 0, Wednesday is 2, Sunday is 6
Weekday(d) == (d + 6) % 7

\* date.replace(day=1)
ReplaceDay1(d) == ToOrdinal(YearOf(d), MonthOf(d), 1)

(***************************************************************************)
(* String formatting                                                       *)
(***************************************************************************)
Digits == <<"0", "1", "2", "3", "4", "5", "6", "7", "8", "9">>

RECURSIVE NatToStr(_)
NatToStr(n) ==
    IF n < 10 THEN Digits[n + 1] ELSE NatToStr(n \div 10) \o Digits[(n % 10) + 1]

\* str(n) of an int
IntToStr(n) == IF n < 0 THEN "-" \o NatToStr(0 - n) ELSE NatToStr(n)

\* f"{week_number}<week suffix>"
WeekLabelFmt(week_number) == IntToStr(week_number) \o "juCha"

\* date.strftime("%m<month suffix>"): the month number on two digits
StrftimeMonth(d) ==
    Digits[(MonthOf(d) \div 10) + 1] \o Digits[(MonthOf(d) % 10) + 1] \o "wol"

(***************************************************************************)
(* get_week_and_month_label                                                *)
(***************************************************************************)
FirstDayOfMonth(d) == ReplaceDay1(d)

\* days from the first day of a month to its first Wednesday
\* the offset to the first Wednesday without its reduction modulo 7
DaysUntilFirstWed_NoMod(first_day) == 2 - Weekday(first_day) + 7

DaysUntilFirstWed(first_day) == (2 - Weekday(first_day) + 7) % 7

FirstWedFrom(first_day) == first_day + DaysUntilFirstWed(first_day)

\* the Monday of the week of a day
MondayOf(day) == day - (Weekday(day) - 0)

FirstWed(d) == FirstWedFrom(FirstDayOfMonth(d))

MondayOfFirstWeek(d) == MondayOf(FirstWed(d))

\* the comparison of step 2 turned around
BeforeFirstWeek_Flipped(d) == d >= MondayOfFirstWeek(d)

BeforeFirstWeek(d) == d < MondayOfFirstWeek(d)

LastDayOfPrevMonth(d) == FirstDayOfMonth(d) - 1

FirstDayOfPrevMonth(d) == ReplaceDay1(LastDayOfPrevMonth(d))

\* the last Wednesday on or before the last day of a month
LastWedUpTo(last_day) == last_day - ((Weekday(last_day) - 2) % 7)

WeeksBetween(first_wed, last_wed) == ((last_wed - first_wed) \div 7) + 1

WeeksInPrevMonth(d) ==
    WeeksBetween(FirstWedFrom(FirstDayOfPrevMonth(d)),
                 LastWedUpTo(LastDayOfPrevMonth(d)))

\* the week-count test of step 2 taking four weeks for a fifth
PrevMonthHasWeek5_FourWeeks(d) == WeeksInPrevMonth(d) >= 4

PrevMonthHasWeek5(d) == WeeksInPrevMonth(d) >= 5

NextMonth(d) == ReplaceDay1(FirstDayOfMonth(d) + 32)

LastDayOfMonth(d) == NextMonth(d) - 1

LastWedOfMonth(d) == LastWedUpTo(LastDayOfMonth(d))

MondayOfLastWeek(d) == MondayOf(LastWedOfMonth(d))

\* the week count of the month counting one week too many
WeeksInMonth_OneMore(d) == WeeksBetween(FirstWed(d), LastWedOfMonth(d)) + 1

WeeksInMonth(d) == WeeksBetween(FirstWed(d), LastWedOfMonth(d))

\* step 3 without its week-count condition
InLastWeek5_AnyCount(d) == d >= MondayOfLastWeek(d)

InLastWeek5(d) == d >= MondayOfLastWeek(d) /\ WeeksInMonth(d) >= 5

MondayOfFirstWeekNext(d) == MondayOf(FirstWedFrom(NextMonth(d)))

\* the pull-forward week taken to start at the first Wednesday
InFirstWeekOfNext_FromWed(d) ==
    FirstWedFrom(NextMonth(d)) <= d /\ d < MondayOfFirstWeekNext(d) + 7

\* the pull-forward test without its lower bound
InFirstWeekOfNext_NoLowerBound(d) == d < MondayOfFirstWeekNext(d) + 7

InFirstWeekOfNext(d) ==
    MondayOfFirstWeekNext(d) <= d /\ d < MondayOfFirstWeekNext(d) + 7

\* the week number counted from 0
WeekNumber_ZeroBased(d) == (d - MondayOfFirstWeek(d)) \div 7

WeekNumber(d) == ((d - MondayOfFirstWeek(d)) \div 7) + 1

\* value of week_label and month_label before the function assigns them
Unbound == "<unbound>"

\* The four return statements; step is the rule of the cascade that returns.
\* step 2 labelling with the month of the date itself
PrevMonthWeek5_OwnMonth(d) ==
    [week_label  |-> "5juCha",
     month_label |-> StrftimeMonth(FirstDayOfMonth(d)),
     step        |-> 2]

PrevMonthWeek5(d) ==
    [week_label  |-> "5juCha",
     month_label |-> StrftimeMonth(FirstDayOfPrevMonth(d)),
     step        |-> 2]

\* step 3 labelling with the next month, as step 4 does
LastWeek5_NextMonth(d) ==
    [week_label  |-> "5juCha",
     month_label |-> StrftimeMonth(NextMonth(d)),
     step        |-> 3]

LastWeek5(d) ==
    [week_label  |-> "5juCha",
     month_label |-> StrftimeMonth(FirstDayOfMonth(d)),
     step        |-> 3]

NextMonthWeek1(d) ==
    [week_label  |-> "1juCha",
     month_label |-> StrftimeMonth(NextMonth(d)),
     step        |-> 4]

\* the default branch assigning a week label only to week numbers from 1 on
CurrentMonthWeek_FromWeek1(d) ==
    [week_label  |-> IF WeekNumber(d) >= 1
                     THEN WeekLabelFmt(WeekNumber(d)) ELSE Unbound,
     month_label |-> StrftimeMonth(FirstDayOfMonth(d)),
     step        |-> 5]

CurrentMonthWeek(d) ==
    [week_label  |-> WeekLabelFmt(WeekNumber(d)),
     month_label |-> StrftimeMonth(FirstDayOfMonth(d)),
     step        |-> 5]

\* datetime.date holds the days 0001-01-01..9999-12-31; arithmetic that leaves
\* them raises OverflowError.
DateRange == 1..3652059

\* the dates a call on d may compute
DatesComputed(d) ==
    {FirstDayOfMonth(d), FirstWed(d), MondayOfFirstWeek(d),
     LastDayOfPrevMonth(d), FirstDayOfPrevMonth(d),
     FirstWedFrom(FirstDayOfPrevMonth(d)), LastWedUpTo(LastDayOfPrevMonth(d)),
     FirstDayOfMonth(d) + 32, NextMonth(d), LastDayOfMonth(d),
     LastWedOfMonth(d), MondayOfLastWeek(d), FirstWedFrom(NextMonth(d)),
     MondayOfFirstWeekNext(d), MondayOfFirstWeekNext(d) + 7}

\* The conditions under which the cascade gets past a return statement.
PastPrevMonthCheck(d) == ~(BeforeFirstWeek(d) /\ PrevMonthHasWeek5(d))

PastLastWeekCheck(d) == PastPrevMonthCheck(d) /\ ~InLastWeek5(d)

PastNextMonthCheck(d) == PastLastWeekCheck(d) /\ ~InFirstWeekOfNext(d)

GetWeekAndMonthLabel(d) ==
    IF ~PastPrevMonthCheck(d) THEN PrevMonthWeek5(d)
    ELSE IF ~PastLastWeekCheck(d) THEN LastWeek5(d)
    ELSE IF ~PastNextMonthCheck(d) THEN NextMonthWeek1(d)
    ELSE CurrentMonthWeek(d)

(***************************************************************************)
(* One call of get_week_and_month_label on a date of MinYear..MaxYear.     *)
(***************************************************************************)
\* No tool is being invoked: the label function is called on its own.
NoInvocation ==
    /\ tool = "none"
    /\ selected_date = << >>
    /\ name_known = TRUE
    /\ assigned_to = <<"<None>">>
    /\ tpc = "done"
    /\ requests = 0
    /\ failures = 0
    /\ users = << >>
    /\ idx = 0
    /\ offset = 0
    /\ total = 0
    /\ found = 0
    /\ outcome = "none"
    /\ error = ""

\* No sum is being computed.
NoAggregation ==
    /\ reducer = "none"
    /\ include_unagreed = FALSE
    /\ issue = << >>
    /\ acc = << >>
    /\ count = 0
    /\ apc = "done"
    /\ exc = ""
    /\ member = << >>

\* No threshold report is being computed.
NoReport ==
    /\ report = "none"
    /\ all_members = << >>
    /\ threshold = 0
    /\ days_elapsed = 0
    /\ below = << >>
    /\ rpc = "done"
    /\ returned = "none"

\* No filter is being built.
NoFilter ==
    /\ query_tool = "none"
    /\ name_given = TRUE
    /\ member_id = "none"
    /\ params = << >>
    /\ qpc = "done"

\* request() has not been called
NoResult == [status_code |-> -1, body |-> "none"]

\* No fetch loop is running.
NoFetch ==
    /\ resource = "none"
    /\ records = 0
    /\ total_issues = << >>
    /\ page_offset = 0
    /\ paged_log = << >>
    /\ received = << >>
    /\ result = NoResult
    /\ fetch_pc = "done"
    /\ fetch_error = ""

\* No journal is being scanned.
NoScan ==
    /\ scan_tool = "none"
    /\ start_obj = 0
    /\ end_obj = 0
    /\ issue_id = 0
    /\ seen = << >>
    /\ agreement_cleared_date = 0
    /\ violations = << >>
    /\ spc = "done"

\* Nothing of the later sections is running.
RestIdle == NoFilter /\ NoFetch /\ NoScan

FirstDate == ToOrdinal(MinYear, 1, 1)

LastDate == ToOrdinal(MaxYear, 12, 31)

Dates == FirstDate..LastDate

Init ==
    /\ date_obj \in Dates
    /\ week_label = Unbound
    /\ month_label = Unbound
    /\ step = 0
    /\ pc = "call"
    /\ NoInvocation
    /\ NoAggregation
    /\ NoReport
    /\ RestIdle

Returned(r) ==
    /\ week_label' = r.week_label
    /\ month_label' = r.month_label
    /\ step' = r.step
    /\ pc' = "done"
    /\ UNCHANGED date_obj
    /\ UNCHANGED <<toolVars, aggVars, thrVars, restVars>>

\* if date_obj < monday_of_first_week, and weeks_in_prev_month >= 5: return
ReturnPrevMonthWeek5 ==
    /\ pc = "call"
    /\ BeforeFirstWeek(date_obj)
    /\ PrevMonthHasWeek5(date_obj)
    /\ Returned(PrevMonthWeek5(date_obj))

\* if date_obj >= monday_of_last_week and weeks_in_month >= 5: return
ReturnLastWeek5 ==
    /\ pc = "call"
    /\ PastPrevMonthCheck(date_obj)
    /\ InLastWeek5(date_obj)
    /\ Returned(LastWeek5(date_obj))

\* if monday_of_first_week_next <= date_obj < monday_of_first_week_next + 7
ReturnNextMonthWeek1 ==
    /\ pc = "call"
    /\ PastLastWeekCheck(date_obj)
    /\ InFirstWeekOfNext(date_obj)
    /\ Returned(NextMonthWeek1(date_obj))

\* otherwise the week number within the current month
ReturnCurrentMonthWeek ==
    /\ pc = "call"
    /\ PastNextMonthCheck(date_obj)
    /\ Returned(CurrentMonthWeek(date_obj))

Next ==
    \/ ReturnPrevMonthWeek5
    \/ ReturnLastWeek5
    \/ ReturnNextMonthWeek1
    \/ ReturnCurrentMonthWeek

Spec == Init /\ [][Next]_vars

\* The labels of the dates around the called ones, computed once.
Labels ==
    [d \in (FirstDate - Window)..(LastDate + Window) |-> GetWeekAndMonthLabel(d)]

TypeOK ==
    /\ date_obj \in Dates
    /\ pc \in {"call", "done"}
    /\ step \in 0..5
    /\ pc = "done" => Labels[date_obj] =
           [week_label |-> week_label, month_label |-> month_label, step |-> step]

(***************************************************************************)
(* The calendar, stated without the function's own arithmetic.             *)
(***************************************************************************)
WeekLabels == {"1juCha", "2juCha", "3juCha", "4juCha", "5juCha"}

MonthLabels ==
    <<"01wol", "02wol", "03wol", "04wol", "05wol", "06wol",
      "07wol", "08wol", "09wol", "10wol", "11wol", "12wol">>

\* the days of month m of year y that are Wednesdays
Wednesdays(y, m) ==
    {k \in 1..DaysInMonth(y, m) : Weekday(ToOrdinal(y, m, k)) = 2}

PrevMonthNo(m) == IF m = 1 THEN 12 ELSE m - 1

PrevMonthYear(y, m) == IF m = 1 THEN y - 1 ELSE y

\* the number of Wednesdays of the calendar month before the month of d
WednesdaysBefore(d) ==
    Cardinality(Wednesdays(PrevMonthYear(YearOf(d), MonthOf(d)),
                           PrevMonthNo(MonthOf(d))))

(***************************************************************************)
(* Claims                                                                  *)
(***************************************************************************)

\* C1: for every date the returned week label is one of "1juCha".."5juCha";
\* the week number is never 0, negative or above 5.
C1_WeekLabelOneToFive == pc = "done" => week_label \in WeekLabels

\* C2: for every date of 2020-01-01..2030-12-31 the call returns (some return
\* statement is reached: every date the call computes is one datetime.date
\* can hold, so that no date arithmetic raises) and both labels of the returned pair
\* are assigned and non-empty.
C2_LabelPairAssigned ==
    /\ pc = "call" => DatesComputed(date_obj) \subseteq DateRange
    /\ pc = "done" =>
          /\ week_label # Unbound /\ Len(week_label) > 0
          /\ month_label # Unbound /\ Len(month_label) > 0

C2_Witness ==
    /\ pc = "done"
    /\ date_obj = LastDate
    /\ Len(week_label) > 0
    /\ Len(month_label) > 0

\* C3 as stated: a date before the fiscal Monday of its calendar month always
\* finds five Wednesdays in the previous month and is labelled by step 2.
C3_GapNeverReached ==
    (pc = "done" /\ BeforeFirstWeek(date_obj)) =>
        (WednesdaysBefore(date_obj) >= 5 /\ step = 2)

\* C3 amended: a date before the fiscal Monday of its calendar month finds 4
\* or 5 Wednesdays in the previous month; with 5 it is labelled by step 2,
\* with 4 it falls through steps 3 and 4 to step 5 and is labelled week 0 of
\* its own calendar month.
C3_GapReachedOnFourWeeks ==
    (pc = "done" /\ BeforeFirstWeek(date_obj)) =>
        /\ WednesdaysBefore(date_obj) \in {4, 5}
        /\ WednesdaysBefore(date_obj) = 5 => step = 2
        /\ WednesdaysBefore(date_obj) = 4 =>
              /\ step = 5
              /\ week_label = "0juCha"
              /\ month_label = MonthLabels[MonthOf(date_obj)]

C3_Witness ==
    /\ pc = "done"
    /\ BeforeFirstWeek(date_obj)
    /\ WednesdaysBefore(date_obj) = 4
    /\ step = 5

\* the week number a week label shows
WeekNumberOf(label) ==
    CHOOSE n \in -9..9 :
        label = (IF n < 0 THEN "-" \o Digits[1 - n] ELSE Digits[n + 1]) \o "juCha"

\* C4: the dates mapped to one fiscal month's label are a contiguous run of
\* days (no date between two dates of the run has another month label), and
\* every date has exactly one month label.
C4_MonthRunContiguous ==
    pc = "done" =>
        /\ Cardinality({m \in 1..12 : MonthLabels[m] = month_label}) = 1
        /\ \A e \in date_obj..(date_obj + Window) :
              Labels[e].month_label = month_label =>
                  \A f \in date_obj..e : Labels[f].month_label = month_label

C4_Witness ==
    /\ pc = "done"
    /\ step = 4
    /\ MonthOf(date_obj + 7) # MonthOf(date_obj)
    /\ Labels[date_obj + 7].month_label = month_label
    /\ Labels[date_obj - 1].month_label # month_label

\* C5: among the dates of one fiscal month the week number does not decrease
\* as the date increases.
C5_WeekNonDecreasing ==
    pc = "done" =>
        \A e \in date_obj..(date_obj + Window) :
            Labels[e].month_label = month_label =>
                WeekNumberOf(week_label) <= WeekNumberOf(Labels[e].week_label)

C5_Witness ==
    /\ pc = "done"
    /\ step = 4
    /\ \E e \in date_obj..(date_obj + Window) :
          /\ Labels[e].month_label = month_label
          /\ Labels[e].week_label = "5juCha"

\* C6: the seven dates of the Monday-to-Sunday week holding the first
\* Wednesday of a calendar month M are labelled week 1 of M, the Monday and
\* Tuesday that still lie in M-1 included.
C6_FirstWednesdayWeekIsWeek1 ==
    pc = "done" =>
        LET wed == (date_obj - Weekday(date_obj)) + 2
        IN  DayOf(wed) <= 7 =>
                /\ week_label = "1juCha"
                /\ month_label = MonthLabels[MonthOf(wed)]

C6_Witness ==
    /\ pc = "done"
    /\ DayOf((date_obj - Weekday(date_obj)) + 2) <= 7
    /\ MonthOf((date_obj - Weekday(date_obj)) + 2) # MonthOf(date_obj)
    /\ week_label = "1juCha"
    /\ step = 4

\* C7: a date of calendar month M before fiscal_monday(M), whose previous
\* month has a fiscal week count of at least 5, is labelled week 5 of M-1,
\* M-1 wrapping from January to December.
C7_SpilloverIsWeek5OfPrevMonth ==
    (pc = "done" /\ BeforeFirstWeek(date_obj) /\ WeeksInPrevMonth(date_obj) >= 5) =>
        /\ week_label = "5juCha"
        /\ month_label = MonthLabels[PrevMonthNo(MonthOf(date_obj))]

C7_Witness ==
    /\ pc = "done"
    /\ BeforeFirstWeek(date_obj)
    /\ WeeksInPrevMonth(date_obj) >= 5
    /\ MonthOf(date_obj) = 1
    /\ month_label = "12wol"

\* the largest element of a non-empty set of numbers
MaxOf(S) == CHOOSE x \in S : \A z \in S : z <= x

\* C8: in a calendar month M with five Wednesdays every date from the Monday
\* of the last Wednesday's week through M's last day is labelled week 5 of M
\* (and so never week 1 of M+1).
C8_TrailingDaysAreWeek5 ==
    pc = "done" =>
        LET W == Wednesdays(YearOf(date_obj), MonthOf(date_obj))
        IN  (Cardinality(W) = 5 /\ DayOf(date_obj) >= MaxOf(W) - 2) =>
                /\ week_label = "5juCha"
                /\ month_label = MonthLabels[MonthOf(date_obj)]

C8_Witness ==
    /\ pc = "done"
    /\ Cardinality(Wednesdays(YearOf(date_obj), MonthOf(date_obj))) = 5
    /\ DayOf(date_obj) = DaysInMonth(YearOf(date_obj), MonthOf(date_obj))
    /\ Weekday(date_obj) = 4
    /\ step = 3

\* d lies in the week just before the fiscal Monday of a calendar month whose
\* 1st is a Wednesday (the Wednesday of the following week is a 1st)
JustBeforeWedMonth(d) == DayOf((d - Weekday(d)) + 9) = 1

\* C9 as stated: when the 1st of M is a Wednesday, fiscal_monday(M) is two
\* days before the 1st, and the dates just before that Monday get the label
\* of M-1 from rule 2.
C9_RoutedByRule2 ==
    pc = "done" =>
        /\ Weekday(FirstDayOfMonth(date_obj)) = 2 =>
              MondayOfFirstWeek(date_obj) = FirstDayOfMonth(date_obj) - 2
        /\ JustBeforeWedMonth(date_obj) =>
              /\ month_label =
                    MonthLabels[PrevMonthNo(MonthOf((date_obj - Weekday(date_obj)) + 9))]
              /\ step = 2

\* C9 amended: when the 1st of M is a Wednesday, fiscal_monday(M) is two days
\* before the 1st, and the dates just before that Monday get the label of M-1
\* from rule 5, evaluated in their own calendar month M-1; rule 2 does not
\* apply to them.
C9_RoutedByRule5 ==
    pc = "done" =>
        /\ Weekday(FirstDayOfMonth(date_obj)) = 2 =>
              MondayOfFirstWeek(date_obj) = FirstDayOfMonth(date_obj) - 2
        /\ JustBeforeWedMonth(date_obj) =>
              /\ month_label =
                    MonthLabels[PrevMonthNo(MonthOf((date_obj - Weekday(date_obj)) + 9))]
              /\ ~BeforeFirstWeek(date_obj)
              /\ step = 5

C9_Witness ==
    /\ pc = "done"
    /\ JustBeforeWedMonth(date_obj)
    /\ Weekday(date_obj) = 6
    /\ MonthOf(date_obj + 3) # MonthOf(date_obj)
    /\ month_label = MonthLabels[MonthOf(date_obj)]
    /\ step = 5

\* the dates around calendar month m of year y labelled week 5 of m
Week5Dates(y, m) ==
    {e \in (ToOrdinal(y, m, 1) - 7)..(ToOrdinal(y, m, 1) + 37) :
        /\ Labels[e].week_label = "5juCha"
        /\ Labels[e].month_label = MonthLabels[m]}

\* C10: some date is labelled week 5 of M if and only if calendar month M has
\* five Wednesdays; with four Wednesdays no date is labelled week 5 of M.
C10_Week5IffFiveWednesdays ==
    pc = "done" =>
        LET y == YearOf(date_obj)
            m == MonthOf(date_obj)
        IN  /\ Cardinality(Wednesdays(y, m)) \in {4, 5}
            /\ (Week5Dates(y, m) # {}) <=> (Cardinality(Wednesdays(y, m)) = 5)
            /\ (week_label = "5juCha" /\ month_label = MonthLabels[m]) =>
                   Cardinality(Wednesdays(y, m)) = 5

C10_Witness ==
    /\ pc = "done"
    /\ Cardinality(Wednesdays(YearOf(date_obj), MonthOf(date_obj))) = 4
    /\ Week5Dates(YearOf(date_obj), MonthOf(date_obj)) = {}
    /\ date_obj >= MondayOfLastWeek(date_obj)
    /\ week_label = "4juCha"

\* C11: the step-3 condition (date on or after the Monday of the last
\* Wednesday's week, in a month of five weeks) and the step-4 condition (date
\* in the first fiscal week of the next month) never hold of the same date.
C11_Step3AndStep4Exclusive ==
    ~(InLastWeek5(date_obj) /\ InFirstWeekOfNext(date_obj))

C11_Witness ==
    /\ pc = "done"
    /\ InLastWeek5(date_obj)
    /\ ~InFirstWeekOfNext(date_obj)
    /\ date_obj + 3 >= MondayOfFirstWeekNext(date_obj)
    /\ step = 3

\* C12: a date before the fiscal Monday of its calendar month (step 2's
\* date-range condition) is never labelled by step 3 or step 4.
C12_Step2DatesSkipSteps3And4 ==
    (pc = "done" /\ BeforeFirstWeek(date_obj)) => step \notin {3, 4}

C12_Witness ==
    /\ pc = "done"
    /\ BeforeFirstWeek(date_obj)
    /\ ~PrevMonthHasWeek5(date_obj)
    /\ ~InLastWeek5(date_obj)
    /\ ~InFirstWeekOfNext(date_obj)
    /\ step = 5
\* ------------------------------------------------------------------
\* parse_date: datetime.strptime(date_str, "%Y-%m-%d").date()
\* A date string is a sequence of one-character strings.
\* ------------------------------------------------------------------

IsDigit(c) == \E i \in 1..10 : Digits[i] = c

DigitVal(c) == (CHOOSE i \in 1..10 : Digits[i] = c) - 1

CharAt(s, p) == IF p \in 1..Len(s) THEN s[p] ELSE ""

\* %Y is \d\d\d\d, followed by the "-" of the format
YearMatches(s) ==
    /\ Len(s) >= 5
    /\ \A i \in 1..4 : IsDigit(s[i])
    /\ s[5] = "-"

\* %m is 1[0-2]|0[1-9]|[1-9]: the number of characters it takes at p, or 0
MonthLen(s, p) ==
    IF CharAt(s, p) = "1" /\ CharAt(s, p + 1) \in {"0", "1", "2"} THEN 2
    ELSE IF CharAt(s, p) = "0" /\ IsDigit(CharAt(s, p + 1)) /\ CharAt(s, p + 1) # "0"
    THEN 2
    ELSE IF IsDigit(CharAt(s, p)) /\ CharAt(s, p) # "0" THEN 1
    ELSE 0

\* %d is 3[01]|[12]\d|0[1-9]|[1-9]| [1-9]
DayLen(s, p) ==
    IF CharAt(s, p) = "3" /\ CharAt(s, p + 1) \in {"0", "1"} THEN 2
    ELSE IF CharAt(s, p) \in {"1", "2"} /\ IsDigit(CharAt(s, p + 1)) THEN 2
    ELSE IF CharAt(s, p) = "0" /\ IsDigit(CharAt(s, p + 1)) /\ CharAt(s, p + 1) # "0"
    THEN 2
    ELSE IF IsDigit(CharAt(s, p)) /\ CharAt(s, p) # "0" THEN 1
    ELSE IF CharAt(s, p) = " " /\ IsDigit(CharAt(s, p + 1)) /\ CharAt(s, p + 1) # "0"
    THEN 2
    ELSE 0

\* int() of the characters a field took
FieldVal(s, p, n) ==
    IF n = 1 THEN DigitVal(s[p])
    ELSE IF n = 2
    THEN (IF s[p] = " " THEN 0 ELSE DigitVal(s[p]) * 10) + DigitVal(s[p + 1])
    ELSE DigitVal(s[p]) * 1000 + DigitVal(s[p + 1]) * 100
         + DigitVal(s[p + 2]) * 10 + DigitVal(s[p + 3])

\* the whole string matches the format, with nothing left unconverted
FormatMatches(s) ==
    /\ YearMatches(s)
    /\ MonthLen(s, 6) > 0
    /\ CharAt(s, 6 + MonthLen(s, 6)) = "-"
    /\ DayLen(s, 7 + MonthLen(s, 6)) > 0
    /\ 6 + MonthLen(s, 6) + DayLen(s, 7 + MonthLen(s, 6)) = Len(s)

\* the [year, month, day] of a string matching the format
StrptimeFields(s) ==
    [year  |-> FieldVal(s, 1, 4),
     month |-> FieldVal(s, 6, MonthLen(s, 6)),
     day   |-> FieldVal(s, 7 + MonthLen(s, 6), DayLen(s, 7 + MonthLen(s, 6)))]

\* datetime(year, month, day) accepts the fields
FieldsInRange(f) ==
    /\ f.year >= 1
    /\ f.day <= DaysInMonth(f.year, f.month)

DateError == "selected_date must be in YYYY-MM-DD format"

\* parse_date: the date, or the ValueError it raises
ParseDate(s) ==
    IF FormatMatches(s) /\ FieldsInRange(StrptimeFields(s))
    THEN [ok   |-> TRUE,
          date |-> ToOrdinal(StrptimeFields(s).year, StrptimeFields(s).month,
                             StrptimeFields(s).day)]
    ELSE [ok |-> FALSE, date |-> 0]

\* The date strings the tools are called with.
WellFormedDate == <<"2", "0", "2", "6", "-", "0", "1", "-", "1", "9">>
UnpaddedDate   == <<"2", "0", "2", "6", "-", "1", "-", "9">>
SlashDate      == <<"2", "0", "2", "6", "/", "0", "1", "/", "1", "9">>
DayFirstDate   == <<"1", "9", "-", "0", "1", "-", "2", "0", "2", "6">>
NoSuchDay      == <<"2", "0", "2", "6", "-", "0", "2", "-", "3", "0">>
TrailingDate   == <<"2", "0", "2", "6", "-", "0", "1", "-", "1", "9", "T">>

DateStrings ==
    {WellFormedDate, UnpaddedDate, SlashDate, DayFirstDate, NoSuchDay, TrailingDate}

\* ------------------------------------------------------------------
\* Tool invocations against the backend
\* ------------------------------------------------------------------

\* Records of a full page: stands for limit = 100 of the fetch_all_* loops.
Limit == 2
\* Pages one fetch loop receives at most: the last of them is a short page.
MaxPages == 2

\* One tool of each shape of code.
PerMemberTool  == "get_issues_per_week_by_date"
AllMembersTool == "get_all_members_weekly_plan"
ThresholdTool  == "get_members_below_weekly_threshold"
DelayedTool    == "get_all_projects_with_delayed_tasks"
JournalTool    == "find_agreement_violations_removed"

Tools == {PerMemberTool, AllMembersTool, ThresholdTool, DelayedTool, JournalTool}

DateTools == Tools \ {DelayedTool}

UsersFirstTools == {AllMembersTool, ThresholdTool}

MemberError == "Member not found"

BackendError == "Failed to fetch"

\* x if x else None, of a list of n entries
ReturnOrNone(n) == IF n > 0 THEN "list" ELSE "None"

\* The first statement of each tool.
EntryPoint(t) ==
    IF t = PerMemberTool THEN "lookup"
    ELSE IF t \in UsersFirstTools THEN "users"
    ELSE IF t = DelayedTool THEN "status"
    ELSE "parse"

\* The statement after parse_date in each tool.
AfterParse(t) ==
    IF t \in UsersFirstTools THEN "user"
    ELSE IF t = JournalTool THEN "lookup"
    ELSE "issues"

\* The statement after get_member_id in each tool.
AfterLookup(t) == IF t = JournalTool THEN "issues" ELSE "parse"

\* ------------------------------------------------------------------
\* get_member_id.  A name is a sequence of characters; the members table
\* (socramine_dict/members.json) maps names to ids.
\* ------------------------------------------------------------------
\* the argument left at its default None
NoName == <<"<None>">>

\* if assigned_to:
Given(nm) == nm # NoName /\ nm # << >>

members ==
    {[k |-> <<"A", "b">>, v |-> "12"],
     [k |-> <<" ", "c">>, v |-> "34"]}

\* The names the tools are called with: a key in another case, a key with
\* blanks around it, a trimmed key, an unknown name, a key with a blank
\* inside it, and the empty string.
Names ==
    {<<"a", "B">>, <<" ", "A", "b", " ">>, <<"c">>, <<"b">>,
     <<"A", " ", "b">>, << >>}

\* str.lower, of one character
Lower(c) == IF c = "A" THEN "a" ELSE IF c = "B" THEN "b" ELSE IF c = "C" THEN "c" ELSE c

RECURSIVE LStrip(_)
LStrip(nm) == IF nm # << >> /\ Head(nm) = " " THEN LStrip(Tail(nm)) ELSE nm

RECURSIVE RStrip(_)
RStrip(nm) ==
    IF nm # << >> /\ nm[Len(nm)] = " " THEN RStrip(SubSeq(nm, 1, Len(nm) - 1)) ELSE nm

NameKey_CaseKept(nm) == RStrip(LStrip(nm))

\* name.strip().lower()
NameKey(nm) == [i \in 1..Len(RStrip(LStrip(nm))) |-> Lower(RStrip(LStrip(nm))[i])]

\* members_lower.get(name_key): the id, or None
GetMemberId(nm) ==
    LET hits == {m \in members : NameKey(m.k) = NameKey(nm)}
    IN  IF hits = {} THEN "<None>" ELSE (CHOOSE m \in hits : TRUE).v

\* get_member_id returns an id: if not member_id: raise ValueError(...)
IsMember(nm) == GetMemberId(nm) \notin {"<None>", ""}

\* The response to one page request: the backend fails, or answers with n
\* records; a full page is answered only while another page may follow.
Pages(off) ==
    {r \in [ok : BOOLEAN, n : 0..Limit] :
        /\ ~r.ok => r.n = 0
        /\ r.n = Limit => off + Limit < MaxPages * Limit}

\* The invocation's state, and the state after a step.
Cur ==
    [tpc |-> tpc, requests |-> requests, failures |-> failures, users |-> users,
     idx |-> idx, offset |-> offset, total |-> total, found |-> found,
     outcome |-> outcome, error |-> error]

Goto(s) ==
    /\ tpc' = s.tpc
    /\ requests' = s.requests
    /\ failures' = s.failures
    /\ users' = s.users
    /\ idx' = s.idx
    /\ offset' = s.offset
    /\ total' = s.total
    /\ found' = s.found
    /\ outcome' = s.outcome
    /\ error' = s.error
    /\ UNCHANGED <<tool, selected_date, name_known, assigned_to>>
    /\ UNCHANGED <<calVars, aggVars, thrVars, restVars>>

\* raise <e>
Raised(s, e) == [s EXCEPT !.tpc = "done", !.outcome = "raised", !.error = e]

\* return <list of n entries> if <list> else None
ReturnedList(s, n) ==
    [s EXCEPT !.tpc = "done", !.outcome = ReturnOrNone(n), !.found = n]

\* return None
ReturnedNone(s) == [s EXCEPT !.tpc = "done", !.outcome = "None", !.found = 0]

\* request(...) has been called and has answered r
Requested(s, r) ==
    [s EXCEPT !.requests = @ + 1, !.failures = @ + (IF r.ok THEN 0 ELSE 1)]

\* total = []; offset = 0 of a fetch loop, entered at position p
FetchFrom(s, p) == [s EXCEPT !.tpc = p, !.offset = 0, !.total = 0]

\* total.extend(page); offset += limit
PageKept(s, r) == [s EXCEPT !.total = @ + r.n, !.offset = @ + Limit]

\* total.extend(page); break
LastPageKept(s, r) == [s EXCEPT !.total = @ + r.n]

InitTool ==
    /\ tool \in Tools
    /\ selected_date \in (IF tool \in DateTools THEN DateStrings ELSE {<< >>})
    /\ assigned_to \in (IF tool = PerMemberTool THEN Names
                        ELSE IF tool = JournalTool THEN Names \cup {NoName}
                        ELSE {NoName})
    /\ name_known = (IF tool = PerMemberTool THEN IsMember(assigned_to)
                     ELSE Given(assigned_to) => IsMember(assigned_to))
    /\ tpc = EntryPoint(tool)
    /\ requests = 0
    /\ failures = 0
    /\ users = << >>
    /\ idx = 1
    /\ offset = 0
    /\ total = 0
    /\ found = 0
    /\ outcome = "running"
    /\ error = ""
    /\ date_obj = FirstDate
    /\ week_label = Unbound
    /\ month_label = Unbound
    /\ step = 0
    /\ pc = "idle"
    /\ NoAggregation
    /\ NoReport
    /\ RestIdle

\* member_id = get_member_id(assigned_to, members); in the find_* tools
\* under 'if assigned_to:'
LookupMember ==
    /\ tpc = "lookup"
    /\ tool = JournalTool => Given(assigned_to)
    /\ Goto(IF IsMember(assigned_to) THEN [Cur EXCEPT !.tpc = AfterLookup(tool)]
            ELSE Raised(Cur, MemberError))

\* if assigned_to: is false: no member is looked up
SkipLookup ==
    /\ tpc = "lookup"
    /\ tool = JournalTool
    /\ ~Given(assigned_to)
    /\ Goto([Cur EXCEPT !.tpc = AfterLookup(tool)])

\* date_obj = parse_date(selected_date), and the entry of what follows it
ParseSelectedDate ==
    /\ tpc = "parse"
    /\ Goto(IF ParseDate(selected_date).ok
            THEN [FetchFrom(Cur, AfterParse(tool)) EXCEPT !.idx = 1]
            ELSE Raised(Cur, DateError))

\* users = fetch_all_users({'status': 1}): one page request of its loop;
\* a user of the page has a name and an id, or lacks one of them.
\* After the last page: if not users: return None
RequestUsersPage ==
    /\ tpc = "users"
    /\ \E r \in Pages(offset) : \E page \in [1..r.n -> BOOLEAN] :
         LET s == Requested(Cur, r)
             u == [i \in 1..(Len(users) + r.n) |->
                      IF i <= Len(users) THEN users[i] ELSE page[i - Len(users)]]
         IN  Goto(IF ~r.ok THEN Raised(s, BackendError)
                  ELSE IF r.n = Limit
                  THEN [PageKept(s, r) EXCEPT !.users = u]
                  ELSE IF Len(u) = 0
                  THEN ReturnedNone([LastPageKept(s, r) EXCEPT !.users = u])
                  ELSE [LastPageKept(s, r) EXCEPT !.users = u, !.tpc = "parse"])

\* for user in users: if not name or not member_id: continue
SkipUser ==
    /\ tpc = "user"
    /\ idx <= Len(users)
    /\ ~users[idx]
    /\ Goto([Cur EXCEPT !.idx = @ + 1])

\* for user in users: ... issues = fetch_all_issues(params)
FetchForUser ==
    /\ tpc = "user"
    /\ idx <= Len(users)
    /\ users[idx]
    /\ Goto(FetchFrom(Cur, "issues"))

\* after the loop: return results if results else None; the threshold tool
\* goes on to filter a non-empty list (if not all_plans: return None)
EndOfUsers ==
    /\ tpc = "user"
    /\ idx > Len(users)
    /\ Goto(IF tool = ThresholdTool /\ found > 0
            THEN [Cur EXCEPT !.tpc = "filter"]
            ELSE ReturnedList(Cur, found))

\* the members below the threshold are kept:
\* return below_threshold if below_threshold else None
FilterBelow ==
    /\ tpc = "filter"
    /\ \E k \in 0..found : Goto(ReturnedList(Cur, k))

\* What a tool does with the list fetch_all_issues returned.
IssuesFetched(s, k) ==
    IF tool = PerMemberTool THEN ReturnedList(s, s.total)
    ELSE IF tool \in UsersFirstTools
    THEN [s EXCEPT !.tpc = "user", !.idx = @ + 1, !.found = @ + 1]
    ELSE IF tool = DelayedTool
    THEN [s EXCEPT !.tpc = "status", !.idx = @ + 1, !.found = @ + k]
    ELSE IF s.total = 0 THEN ReturnedNone(s)
    ELSE [s EXCEPT !.tpc = "journals", !.idx = 1]

IssuesFailed_NextMember(s) ==
    IF tool = DelayedTool THEN [s EXCEPT !.tpc = "status", !.idx = @ + 1]
    ELSE IF tool \in UsersFirstTools THEN [s EXCEPT !.tpc = "user", !.idx = @ + 1]
    ELSE Raised(s, BackendError)

\* What a tool does with the RuntimeError fetch_all_issues raised:
\* get_all_projects_with_delayed_tasks has it in try/except Exception: continue
IssuesFailed(s) ==
    IF tool = DelayedTool THEN [s EXCEPT !.tpc = "status", !.idx = @ + 1]
    ELSE Raised(s, BackendError)

\* one page request of fetch_all_issues; of the list fetched for a status,
\* k tasks are overdue
RequestIssuesPage ==
    /\ tpc = "issues"
    /\ \E r \in Pages(offset) :
         \E k \in 0..(IF tool = DelayedTool /\ r.ok /\ r.n < Limit
                      THEN total + r.n ELSE 0) :
           LET s == Requested(Cur, r)
           IN  Goto(IF ~r.ok THEN IssuesFailed(s)
                    ELSE IF r.n = Limit THEN PageKept(s, r)
                    ELSE IssuesFetched(LastPageKept(s, r), k))

\* for status_id in ['1', '2']: try: issues = fetch_all_issues(params)
NextStatus ==
    /\ tpc = "status"
    /\ idx <= 2
    /\ Goto(FetchFrom(Cur, "issues"))

\* if not all_delayed_tasks: return None
\* all_projects = fetch_all_projects()
AfterStatuses ==
    /\ tpc = "status"
    /\ idx > 2
    /\ Goto(IF found = 0 THEN ReturnedNone(Cur) ELSE FetchFrom(Cur, "projects"))

\* one page request of fetch_all_projects; after the last page
\* if not all_projects: return None, else the delayed tasks fall into k leaf
\* projects: return projects_with_delays if projects_with_delays else None
RequestProjectsPage ==
    /\ tpc = "projects"
    /\ \E r \in Pages(offset) : \E k \in 0..found :
         LET s == Requested(Cur, r)
         IN  Goto(IF ~r.ok THEN Raised(s, BackendError)
                  ELSE IF r.n = Limit THEN PageKept(s, r)
                  ELSE IF total + r.n = 0 THEN ReturnedNone(LastPageKept(s, r))
                  ELSE ReturnedList(LastPageKept(s, r), k))

\* journals = get_issue_journals(issue_id): get_issue_details answers None
\* on a failed request and the issue is passed over (if not journals:
\* continue); the journals of a fetched issue hold v violations
RequestIssueDetails ==
    /\ tpc = "journals"
    /\ idx <= total
    /\ \E r \in {q \in Pages(0) : q.n = 0} : \E v \in 0..1 :
         LET s == Requested(Cur, r)
         IN  Goto([s EXCEPT !.idx = @ + 1,
                            !.found = @ + (IF r.ok THEN v ELSE 0)])

\* return violations if violations else None
EndOfIssues ==
    /\ tpc = "journals"
    /\ idx > total
    /\ Goto(ReturnedList(Cur, found))

NextTool ==
    \/ LookupMember
    \/ SkipLookup
    \/ ParseSelectedDate
    \/ RequestUsersPage
    \/ SkipUser
    \/ FetchForUser
    \/ EndOfUsers
    \/ FilterBelow
    \/ RequestIssuesPage
    \/ NextStatus
    \/ AfterStatuses
    \/ RequestProjectsPage
    \/ RequestIssueDetails
    \/ EndOfIssues

SpecTool == InitTool /\ [][NextTool]_vars
\* C13: in every tool that takes a date string, a malformed selected_date
\* ends the invocation with the error of parse_date and no backend request
\* is issued before it, the all-members reports and their threshold
\* variants included, also when the backend answers an empty user list.
C13_BadDateRaisesBeforeAnyRequest ==
    (tool \in DateTools /\ name_known /\ ~ParseDate(selected_date).ok) =>
        /\ requests = 0
        /\ tpc = "done" => (outcome = "raised" /\ error = DateError)
\* ------------------------------------------------------------------
\* Sums over the fetched records
\* ------------------------------------------------------------------

\* Issues one member's fetch returns at most.
MaxIssues == 2

\* The value of a JSON field: the key is absent, or it holds null, "", a
\* text that is no number, a non-empty list, or a number.
Absent == [kind |-> "absent", val |-> 0]
Null   == [kind |-> "null", val |-> 0]
Empty  == [kind |-> "empty", val |-> 0]
Text   == [kind |-> "text", val |-> 0]
List   == [kind |-> "list", val |-> 0]
Num(n) == [kind |-> "num", val |-> n]

\* the name of the custom field holding what is still to be agreed
AgreementField == "hapuiPilyoSahang"

\* bool(v)
Truthy(v) == v.kind \in {"text", "list"} \/ (v.kind = "num" /\ v.val # 0)

\* d.get(key, 0)
GetOr0(v) == IF v.kind = "absent" THEN Num(0) ELSE v

\* d.get(key)
GetOrNone(v) == IF v.kind = "absent" THEN Null ELSE v

\* v or 0
OrZero(v) == IF Truthy(v) THEN v ELSE Num(0)

\* float(v): the number, or the exception raised
Float(v) ==
    IF v.kind = "num" THEN [ok |-> TRUE, val |-> v.val, exc |-> ""]
    ELSE IF v.kind \in {"text", "empty"}
    THEN [ok |-> FALSE, val |-> 0, exc |-> "ValueError"]
    ELSE [ok |-> FALSE, val |-> 0, exc |-> "TypeError"]

\* float(d.get(key, 0) or 0)
FloatOrZero(v) == Float(OrZero(GetOr0(v)))

\* try: float(d.get(key, 0) or 0)  except ValueError: pass
FloatOrPass(v) ==
    IF FloatOrZero(v).exc = "ValueError"
    THEN [ok |-> TRUE, val |-> 0, exc |-> ""]
    ELSE FloatOrZero(v)

\* the first custom field of that name, 0 when there is none
FirstNamed(cfs, name) ==
    IF \E i \in 1..Len(cfs) : cfs[i].name = name
    THEN CHOOSE i \in 1..Len(cfs) :
            /\ cfs[i].name = name
            /\ \A j \in 1..(i - 1) : cfs[j].name # name
    ELSE 0

\* pv = 0.0; for cf: if name == "PV": try: pv = float(...) ...; break
PlanPv(cfs) ==
    IF FirstNamed(cfs, "PV") = 0 THEN [ok |-> TRUE, val |-> 0, exc |-> ""]
    ELSE FloatOrPass(cfs[FirstNamed(cfs, "PV")].value)

\* is_agreed = True; for cf: if name == <agreement field>:
\*     if cf.get("value"): is_agreed = False; break
IsAgreed(cfs) ==
    \/ FirstNamed(cfs, AgreementField) = 0
    \/ ~Truthy(GetOrNone(cfs[FirstNamed(cfs, AgreementField)].value))

\* for cf: if name == <name>: try: total += float(...) except ValueError: pass
RECURSIVE SumNamed(_, _)
SumNamed(cfs, name) ==
    IF cfs = << >> THEN [ok |-> TRUE, val |-> 0, exc |-> ""]
    ELSE LET rest == SumNamed(Tail(cfs), name)
             this == IF Head(cfs).name = name THEN FloatOrPass(Head(cfs).value)
                     ELSE [ok |-> TRUE, val |-> 0, exc |-> ""]
         IN  IF ~this.ok THEN this
             ELSE IF ~rest.ok THEN rest
             ELSE [ok |-> TRUE, val |-> this.val + rest.val, exc |-> ""]

\* The sums of one member before the first issue.
ZeroSums ==
    [agreed_hours |-> 0, agreed_pv |-> 0, unagreed_hours |-> 0, unagreed_pv |-> 0,
     hours |-> 0, pv |-> 0, ev |-> 0]

Summed(a) == [ok |-> TRUE, acc |-> a, exc |-> ""]

Thrown(a, e) == [ok |-> FALSE, acc |-> a, exc |-> e]

\* the body of "for issue in issues" of the all-members plan helpers
PlanStep(a, is) ==
    LET hours == FloatOrZero(is.estimated_hours)
        pv    == PlanPv(is.custom_fields)
    IN  IF ~hours.ok THEN Thrown(a, hours.exc)
        ELSE IF ~pv.ok THEN Thrown(a, pv.exc)
        ELSE IF IsAgreed(is.custom_fields)
        THEN Summed([a EXCEPT !.agreed_hours = @ + hours.val,
                              !.agreed_pv = @ + pv.val])
        ELSE Summed([a EXCEPT !.unagreed_hours = @ + hours.val,
                              !.unagreed_pv = @ + pv.val])

\* the body of "for issue in issues" of the all-members achievement helpers
AchievementStep(a, is) ==
    LET hours == FloatOrZero(is.estimated_hours)
        pv    == SumNamed(is.custom_fields, "PV")
        ev    == SumNamed(is.custom_fields, "EV")
    IN  IF ~hours.ok THEN Thrown(a, hours.exc)
        ELSE IF ~pv.ok THEN Thrown(a, pv.exc)
        ELSE IF ~ev.ok THEN Thrown(a, ev.exc)
        ELSE Summed([a EXCEPT !.hours = @ + hours.val,
                              !.pv = @ + pv.val,
                              !.ev = @ + ev.val])

\* the body of "for issue in issues" of the per-member hour tools
HoursStep(a, is) ==
    LET hours == FloatOrPass(is.estimated_hours)
    IN  IF ~hours.ok THEN Thrown(a, hours.exc)
        ELSE Summed([a EXCEPT !.hours = @ + hours.val])

\* the body of "for task in delayed_tasks" of the delayed-task totals
DelayedStep(a, is) ==
    LET hours == FloatOrZero(is.estimated_hours)
    IN  IF ~hours.ok THEN Thrown(a, hours.exc)
        ELSE Summed([a EXCEPT !.hours = @ + hours.val])

\* a quotient taken whenever total_pv is not 0
Cpi_NonZeroPv(ev, pv) ==
    IF pv # 0 THEN [num |-> ev, den |-> pv] ELSE [num |-> 0, den |-> 1]

\* total_ev / total_pv if total_pv > 0 else 0.0, as a fraction
Cpi(ev, pv) ==
    IF pv > 0 THEN [num |-> ev, den |-> pv] ELSE [num |-> 0, den |-> 1]

\* a total that takes in the unagreed sum whatever include_unagreed says
PlanTotal_AlwaysBoth(agreed, unagreed, include) == agreed + unagreed

\* total_hours and total_pv of a plan entry
PlanTotal(agreed, unagreed, include) ==
    IF include THEN agreed + unagreed ELSE agreed

\* The entry appended to results for one member.
MemberEntry(a, include) ==
    [total_hours    |-> PlanTotal(a.agreed_hours, a.unagreed_hours, include),
     total_pv       |-> PlanTotal(a.agreed_pv, a.unagreed_pv, include),
     agreed_hours   |-> a.agreed_hours,
     agreed_pv      |-> a.agreed_pv,
     unagreed_hours |-> a.unagreed_hours,
     unagreed_pv    |-> a.unagreed_pv,
     hours          |-> a.hours,
     pv             |-> a.pv,
     ev             |-> a.ev,
     cpi            |-> Cpi(a.ev, a.pv)]

\* The records the backend answers with: an issue carries a custom field
\* once or not at all, and the backend lists the fields in a fixed order.
HourValues == {Absent, Null, Text} \cup {Num(n) : n \in {15, 20}}

SumValues == {Null, Text, List} \cup {Num(n) : n \in {0 - 1, 10}}

AgreementValues == {Null, Empty, Text}

OptionalField(name, values) ==
    {<< >>} \cup {<<[name |-> name, value |-> v]>> : v \in values}

PlanFields ==
    {p \o e \o a : p \in OptionalField("PV", SumValues),
                   e \in OptionalField("EV", {Num(10)}),
                   a \in OptionalField(AgreementField, AgreementValues)}

AchievementFields ==
    {p \o e \o a : p \in OptionalField("PV", SumValues),
                   e \in OptionalField("EV", SumValues),
                   a \in OptionalField(AgreementField, {Text})}

SeqsUpTo(S, n) == UNION {[1..k -> S] : k \in 0..n}

IssuesWith(F) == [estimated_hours : HourValues, custom_fields : F]

NoIssue == [estimated_hours |-> Absent, custom_fields |-> << >>]

Reducers == {"plan", "achievement", "member_hours", "delayed"}

InitAggregate ==
    /\ reducer \in Reducers
    /\ include_unagreed \in (IF reducer = "plan" THEN BOOLEAN ELSE {TRUE})
    /\ issue = NoIssue
    /\ acc = ZeroSums
    /\ count = 0
    /\ apc = "loop"
    /\ exc = ""
    /\ member = MemberEntry(ZeroSums, TRUE)
    /\ date_obj = FirstDate
    /\ week_label = Unbound
    /\ month_label = Unbound
    /\ step = 0
    /\ pc = "idle"
    /\ NoInvocation
    /\ NoReport
    /\ RestIdle

\* One pass of the loop over the fetched issues: the sums move on, or the
\* exception leaves the loop and the report.
Folded(is, r) ==
    /\ issue' = is
    /\ count' = count + 1
    /\ acc' = r.acc
    /\ apc' = IF r.ok THEN "loop" ELSE "raised"
    /\ exc' = r.exc
    /\ UNCHANGED <<reducer, include_unagreed, member>>
    /\ UNCHANGED <<calVars, toolVars, thrVars, restVars>>

FoldPlanIssue ==
    /\ reducer = "plan"
    /\ apc = "loop"
    /\ count < MaxIssues
    /\ \E is \in IssuesWith(PlanFields) : Folded(is, PlanStep(acc, is))

FoldAchievementIssue ==
    /\ reducer = "achievement"
    /\ apc = "loop"
    /\ count < MaxIssues
    /\ \E is \in IssuesWith(AchievementFields) : Folded(is, AchievementStep(acc, is))

FoldHoursIssue ==
    /\ reducer = "member_hours"
    /\ apc = "loop"
    /\ count < MaxIssues
    /\ \E is \in IssuesWith({<< >>}) : Folded(is, HoursStep(acc, is))

FoldDelayedTask ==
    /\ reducer = "delayed"
    /\ apc = "loop"
    /\ count < MaxIssues
    /\ \E is \in IssuesWith({<< >>}) : Folded(is, DelayedStep(acc, is))

\* after the loop: the member's entry, or the total
ReturnSums ==
    /\ apc = "loop"
    /\ apc' = "returned"
    /\ member' = MemberEntry(acc, include_unagreed)
    /\ UNCHANGED <<reducer, include_unagreed, issue, acc, count, exc>>
    /\ UNCHANGED <<calVars, toolVars, thrVars, restVars>>

NextAggregate ==
    \/ FoldPlanIssue
    \/ FoldAchievementIssue
    \/ FoldHoursIssue
    \/ FoldDelayedTask
    \/ ReturnSums

SpecAggregate == InitAggregate /\ [][NextAggregate]_vars
\* The hours summed so far, in whichever sum the report keeps them.
SumOfHours(a) == a.agreed_hours + a.unagreed_hours + a.hours

\* C14: in every report that sums hours, PV or EV, summing a record never
\* raises, and a record whose estimated hours are absent, null or no number
\* adds 0 to the hours; this holds for the per-member hour tools, the
\* all-members helpers and the delayed-task totals alike.
C14_BadFieldCountsZero ==
    [][(apc = "loop" /\ count' = count + 1) =>
          /\ apc' = "loop"
          /\ issue'.estimated_hours.kind # "num" => SumOfHours(acc') = SumOfHours(acc)]_vars
\* C15: a backend request that fails during a tool invocation ends the
\* invocation with the backend error: the failure never becomes None, an
\* empty or partial result, or a record passed over.
C15_BackendFailureEndsInError ==
    failures > 0 => (tpc = "done" /\ outcome = "raised" /\ error = BackendError)
\* ------------------------------------------------------------------
\* Threshold reports over the entries of all members
\* ------------------------------------------------------------------

\* Members of a report at most.
MaxMembers == 3

\* A float, kept exact as a fraction with a positive denominator.
Frac(n, d) == [num |-> n, den |-> d]

\* a < b
Less(a, b) == a.num * b.den < b.num * a.den

\* a - b
Minus(a, b) == Frac(a.num * b.den - b.num * a.den, a.den * b.den)

\* abs(a)
AbsF(a) == Frac(IF a.num < 0 THEN 0 - a.num ELSE a.num, a.den)

HoursReports ==
    {"get_members_below_weekly_threshold", "get_members_below_monthly_threshold",
     "get_members_below_weekly_achievement_threshold",
     "get_members_below_monthly_achievement_threshold"}

YtdTargetReport == "get_members_below_ytd_target"

CpiReport == "get_members_below_cpi_threshold"

Reports == HoursReports \cup {YtdTargetReport, CpiReport}

MemberNames == <<"A", "B", "C", "D", "E">>

\* target_hours = days_elapsed / 7.0 * 40.0
TargetHours(days) == Frac(days * 40, 7)

\* The entry the all-members helper built for the i-th member out of its
\* sums of hours, PV and EV.
InternalEntry(i, m, days) ==
    [name            |-> MemberNames[i],
     hours           |-> Frac(m.hours, 1),
     pv              |-> m.pv,
     cpi             |-> Cpi(m.ev, m.pv),
     target_hours    |-> TargetHours(days),
     hours_vs_target |-> Minus(Frac(m.hours, 1), TargetHours(days))]

InternalEntries(ms, days) ==
    [i \in 1..Len(ms) |-> InternalEntry(i, ms[i], days)]

\* the condition under which a member is appended to the result
IsBelow(r, e, thr) ==
    IF r = YtdTargetReport THEN Less(e.hours_vs_target, Frac(0, 1))
    ELSE IF r = CpiReport THEN Less(e.cpi, thr) /\ e.pv > 0
    ELSE Less(e.hours, thr)

\* the entry appended for a member below: the compared value and the
\* shortfall (the cpi_gap of the CPI report)
BelowEntry(r, e, thr) ==
    IF r = YtdTargetReport
    THEN [name |-> e.name, value |-> e.hours, shortfall |-> AbsF(e.hours_vs_target)]
    ELSE IF r = CpiReport
    THEN [name |-> e.name, value |-> e.cpi, shortfall |-> Minus(thr, e.cpi)]
    ELSE [name |-> e.name, value |-> e.hours, shortfall |-> Minus(thr, e.hours)]

\* for member in all: if <below>: below.append({...})
RECURSIVE BelowOf(_, _, _)
BelowOf(r, es, thr) ==
    IF es = << >> THEN << >>
    ELSE (IF IsBelow(r, Head(es), thr) THEN <<BelowEntry(r, Head(es), thr)>> ELSE << >>)
         \o BelowOf(r, Tail(es), thr)

\* a sort with the larger key first in every report
GoesBefore_Descending(r, x, y) ==
    IF r = YtdTargetReport THEN Less(y.shortfall, x.shortfall)
    ELSE Less(y.value, x.value)

\* x comes before y in below.sort(key=..., [reverse=True])
GoesBefore(r, x, y) ==
    IF r = YtdTargetReport THEN Less(y.shortfall, x.shortfall)
    ELSE Less(x.value, y.value)

\* list.sort is stable: x goes behind the entries it does not come before
RECURSIVE Inserted(_, _, _)
Inserted(r, sorted, x) ==
    IF sorted = << >> THEN <<x>>
    ELSE IF GoesBefore(r, x, Head(sorted)) THEN <<x>> \o sorted
    ELSE <<Head(sorted)>> \o Inserted(r, Tail(sorted), x)

RECURSIVE SortedFrom(_, _, _)
SortedFrom(r, sorted, rest) ==
    IF rest = << >> THEN sorted
    ELSE SortedFrom(r, Inserted(r, sorted, Head(rest)), Tail(rest))

Sorted(r, xs) == SortedFrom(r, << >>, xs)

\* The list a threshold report builds out of the helper's entries.
BelowThreshold(r, es, thr) == Sorted(r, BelowOf(r, es, thr))

\* The sums of the members, the thresholds and the days the reports are
\* called with.
MemberSums(r) ==
    IF r = CpiReport THEN [hours : {0}, pv : 0..2, ev : 0..3]
    ELSE [hours : {10, 30, 40, 45}, pv : {0}, ev : {0}]

ThresholdsOf(r) ==
    IF r = CpiReport THEN {Frac(1, 1), Frac(3, 2)}
    ELSE IF r = YtdTargetReport THEN {Frac(0, 1)}
    ELSE {Frac(40, 1), Frac(30, 1)}

DaysOf(r) == IF r = YtdTargetReport THEN {7, 8} ELSE {7}

InitThreshold ==
    /\ report \in Reports
    /\ all_members \in SeqsUpTo(MemberSums(report), MaxMembers)
    /\ threshold \in ThresholdsOf(report)
    /\ days_elapsed \in DaysOf(report)
    /\ below = << >>
    /\ rpc = "call"
    /\ returned = "none"
    /\ date_obj = FirstDate
    /\ week_label = Unbound
    /\ month_label = Unbound
    /\ step = 0
    /\ pc = "idle"
    /\ NoInvocation
    /\ NoAggregation
    /\ RestIdle

\* if not all: return None ... return below if below else None
Reported(xs) ==
    /\ below' = xs
    /\ returned' = ReturnOrNone(Len(xs))
    /\ rpc' = "done"
    /\ UNCHANGED <<report, all_members, threshold, days_elapsed>>
    /\ UNCHANGED <<calVars, toolVars, aggVars, restVars>>

\* the weekly and monthly plan and achievement threshold tools
ReportBelowHours ==
    /\ rpc = "call"
    /\ report \in HoursReports
    /\ Reported(BelowThreshold(report, InternalEntries(all_members, days_elapsed),
                               threshold))

\* get_members_below_ytd_target
ReportBelowYtdTarget ==
    /\ rpc = "call"
    /\ report = YtdTargetReport
    /\ Reported(BelowThreshold(report, InternalEntries(all_members, days_elapsed),
                               threshold))

\* get_members_below_cpi_threshold
ReportBelowCpi ==
    /\ rpc = "call"
    /\ report = CpiReport
    /\ Reported(BelowThreshold(report, InternalEntries(all_members, days_elapsed),
                               threshold))

NextThreshold ==
    \/ ReportBelowHours
    \/ ReportBelowYtdTarget
    \/ ReportBelowCpi

SpecThreshold == InitThreshold /\ [][NextThreshold]_vars

\* The threshold a report compares with, and the entries strictly below it.
ComparedWith ==
    IF report = YtdTargetReport THEN TargetHours(days_elapsed) ELSE threshold

ComparedValue(e) == IF report = CpiReport THEN e.cpi ELSE e.hours

NamesBelow ==
    {InternalEntries(all_members, days_elapsed)[i].name :
        i \in {j \in 1..Len(all_members) :
                  Less(ComparedValue(InternalEntries(all_members, days_elapsed)[j]),
                       ComparedWith)}}

SameFrac(a, b) == a.num * b.den = b.num * a.den

\* C16: every threshold report returns exactly the members whose compared
\* aggregate is strictly below the threshold, none at or above it and none
\* below it left out, each with shortfall (or gap) = threshold - value,
\* which is strictly positive.
C16_ExactlyTheMembersBelow ==
    rpc = "done" =>
        /\ {below[i].name : i \in 1..Len(below)} = NamesBelow
        /\ \A i \in 1..Len(below) :
              /\ SameFrac(below[i].shortfall, Minus(ComparedWith, below[i].value))
              /\ Less(Frac(0, 1), below[i].shortfall)

\* C17: the list a threshold report returns is in ascending order of the
\* compared value: of two consecutive entries the second is not lower.
C17_SortedAscending ==
    rpc = "done" =>
        \A i \in 1..(Len(below) - 1) : ~Less(below[i + 1].value, below[i].value)

\* totals A=30, B=45, C=10 with threshold 40 give [C (shortfall 30), A (shortfall 10)]
C17_Witness ==
    /\ rpc = "done"
    /\ report = "get_members_below_weekly_threshold"
    /\ threshold = Frac(40, 1)
    /\ Len(all_members) = 3
    /\ all_members[1].hours = 30 /\ all_members[2].hours = 45 /\ all_members[3].hours = 10
    /\ returned = "list"
    /\ below = <<[name |-> "C", value |-> Frac(10, 1), shortfall |-> Frac(30, 1)],
                 [name |-> "A", value |-> Frac(30, 1), shortfall |-> Frac(10, 1)]>>
\* C18: no list-returning tool returns an empty list: with zero records
\* fetched, or nothing left by the filtering, the result is None, and None
\* is returned only by an invocation none of whose requests failed, a
\* backend failure raising instead.
C18_NoneMeansNoData ==
    tpc = "done" =>
        /\ outcome = "list" => found > 0
        /\ outcome = "None" => failures = 0
\* The agreement field of an issue is empty or absent.
AgreementEmptyOrAbsent(is) ==
    \A i \in 1..Len(is.custom_fields) :
        is.custom_fields[i].name = AgreementField =>
            is.custom_fields[i].value.kind \in {"absent", "null", "empty"}

\* The number a field holds, 0 when it holds none.
NumberIn(v) == IF v.kind = "num" THEN v.val ELSE 0

\* The PV an issue carries, 0 when it carries none.
PvOf(is) ==
    IF \E i \in 1..Len(is.custom_fields) : is.custom_fields[i].name = "PV"
    THEN NumberIn((CHOOSE cf \in {is.custom_fields[i] : i \in 1..Len(is.custom_fields)} :
                      cf.name = "PV").value)
    ELSE 0

\* C19: in the all-members plan reports every record summed goes to exactly
\* one of the agreed and unagreed sums, the agreed one iff its agreement
\* field is empty or absent, and a member's total is the agreed sum without
\* include_unagreed and the agreed plus the unagreed sum with it, for hours
\* and for PV alike.
C19_OneBucketAndTotals ==
    /\ [][(reducer = "plan" /\ count' = count + 1 /\ apc' = "loop") =>
             IF AgreementEmptyOrAbsent(issue')
             THEN /\ acc'.agreed_hours = acc.agreed_hours + NumberIn(issue'.estimated_hours)
                  /\ acc'.agreed_pv = acc.agreed_pv + PvOf(issue')
                  /\ acc'.unagreed_hours = acc.unagreed_hours
                  /\ acc'.unagreed_pv = acc.unagreed_pv
             ELSE /\ acc'.unagreed_hours = acc.unagreed_hours + NumberIn(issue'.estimated_hours)
                  /\ acc'.unagreed_pv = acc.unagreed_pv + PvOf(issue')
                  /\ acc'.agreed_hours = acc.agreed_hours
                  /\ acc'.agreed_pv = acc.agreed_pv]_vars
    /\ []((reducer = "plan" /\ apc = "returned") =>
             /\ member.agreed_hours = acc.agreed_hours
             /\ member.unagreed_hours = acc.unagreed_hours
             /\ member.total_hours =
                    member.agreed_hours + (IF include_unagreed THEN member.unagreed_hours ELSE 0)
             /\ member.total_pv =
                    member.agreed_pv + (IF include_unagreed THEN member.unagreed_pv ELSE 0))

\* agreed 20 and unagreed 15 give the total 35 with include_unagreed
C19_Witness ==
    /\ reducer = "plan"
    /\ apc = "returned"
    /\ include_unagreed
    /\ count = 2
    /\ member.agreed_hours = 20
    /\ member.unagreed_hours = 15
    /\ member.total_hours = 35

\* C20: in every achievement report a member's CPI is total_ev / total_pv
\* when total_pv > 0 and 0 when total_pv <= 0, and no division by zero is
\* made.
C20_CpiGuarded ==
    (reducer = "achievement" /\ apc = "returned") =>
        /\ member.cpi.den > 0
        /\ member.pv > 0 => member.cpi.num * member.pv = member.ev * member.cpi.den
        /\ member.pv <= 0 => member.cpi.num = 0

\* EV = 10 and PV = 0 give the CPI 0
C20_Witness ==
    /\ reducer = "achievement"
    /\ apc = "returned"
    /\ member.ev = 10
    /\ member.pv = 0
    /\ member.cpi.num = 0

\* C27: the seven dates of a Monday-to-Sunday week all get the same
\* (week_label, month_label) pair, also in a week that lies across two months
\* or two years.
C27_WholeWeekSameLabel ==
    \A k \in 0..6 :
        /\ Labels[MondayOf(date_obj) + k].week_label = Labels[MondayOf(date_obj)].week_label
        /\ Labels[MondayOf(date_obj) + k].month_label = Labels[MondayOf(date_obj)].month_label

(***************************************************************************)
(* The backend filters (params) of the reports, main.py and helper.py.     *)
(* A params dict is a function from its keys to strings.                   *)
(***************************************************************************)
PerWeekReport == "get_issues_per_week_by_date"
PerMonthReport == "get_issues_per_month_by_date"
PerYearReport == "get_this_year_compy_issues_by_date"
UnagreedReport == "get_unagreed_compy_issues_by_year"
MonthPerformanceReport == "get_this_month_performance_issues_ev"
YearPerformanceReport == "get_this_year_performance_issues_ev"
WeeklyPlanHelper == "get_all_members_weekly_plan_internal"
MonthlyAchievementHelper == "get_all_members_monthly_achievement_internal"

ByDateReports ==
    {PerWeekReport, PerMonthReport, PerYearReport, UnagreedReport,
     WeeklyPlanHelper, MonthlyAchievementHelper}

QueryTools == ByDateReports \cup {MonthPerformanceReport, YearPerformanceReport}

\* the value None of an optional argument
Unset == "<none>"

\* parse_status_param gives "*" when no status is named
StatusIds == {"*", "5"}

TrackerIds == {Unset, "7"}

PriorityIds == {Unset, "3"}

\* the id the member name resolves to, or the id of the user of the loop
ResolvedId == "12"

\* params[k] = v
With(p, k, v) == [x \in DOMAIN p \cup {k} |-> IF x = k THEN v ELSE p[x]]

\* if v: params[k] = v
WithIfSet(p, k, v) == IF v # Unset THEN With(p, k, v) ELSE p

\* str(date_obj.year)
YearStr(d) == IntToStr(YearOf(d))

PerWeekParams(id, d, wl, ml) ==
    [assigned_to_id |-> id, cf_38 |-> YearStr(d), cf_41 |-> wl, cf_42 |-> ml]

PerMonthParams_WithWeek(id, d, wl, ml) ==
    [assigned_to_id |-> id, cf_38 |-> YearStr(d), cf_41 |-> wl, cf_42 |-> ml]

PerMonthParams(id, d, wl, ml) ==
    [assigned_to_id |-> id, cf_38 |-> YearStr(d), cf_42 |-> ml]

PerYearParams(id, d) ==
    [assigned_to_id |-> id, cf_38 |-> YearStr(d)]

UnagreedParams(d) ==
    [cf_38 |-> YearStr(d), tracker_id |-> "7", cf_18 |-> "*"]

PerformanceParams(id, due) ==
    [assigned_to_id |-> id, status_id |-> "5", due_date |-> due,
     child_id |-> "!*", cf_19 |-> "!banryeo", cf_17 |-> "!*"]

InitFilter ==
    /\ query_tool \in QueryTools
    /\ name_given \in (IF query_tool = UnagreedReport THEN BOOLEAN ELSE {TRUE})
    /\ member_id = Unset
    /\ params = << >>
    /\ qpc = "call"
    /\ date_obj \in (IF query_tool \in ByDateReports THEN Dates ELSE {FirstDate})
    /\ week_label = Unbound
    /\ month_label = Unbound
    /\ step = 0
    /\ pc = "idle"
    /\ NoInvocation
    /\ NoAggregation
    /\ NoReport
    /\ NoFetch
    /\ NoScan

\* issues = fetch_all_issues(params), with the labels and the id it was built from
Built(id, wl, ml, p) ==
    /\ member_id' = id
    /\ week_label' = wl
    /\ month_label' = ml
    /\ params' = p
    /\ qpc' = "fetch"
    /\ UNCHANGED <<query_tool, name_given, date_obj, step, pc>>
    /\ UNCHANGED <<toolVars, aggVars, thrVars, fetchVars, scanVars>>

\* get_issues_per_week_by_date, get_hours_per_week_by_date
BuildPerWeekFilter ==
    /\ qpc = "call"
    /\ query_tool = PerWeekReport
    /\ \E status_id \in StatusIds, tracker_type_id \in TrackerIds, priority_id \in PriorityIds :
        LET l == Labels[date_obj]
            p == PerWeekParams(ResolvedId, date_obj, l.week_label, l.month_label)
        IN  Built(ResolvedId, l.week_label, l.month_label,
                  WithIfSet(WithIfSet(With(p, "status_id", status_id),
                                      "tracker_id", tracker_type_id),
                            "priority_id", priority_id))

\* get_issues_per_month_by_date, get_hours_per_month_by_date and the
\* this_month_compy tools
BuildPerMonthFilter ==
    /\ qpc = "call"
    /\ query_tool = PerMonthReport
    /\ \E status_id \in StatusIds, tracker_type_id \in TrackerIds, priority_id \in PriorityIds :
        LET l == Labels[date_obj]
            p == PerMonthParams(ResolvedId, date_obj, l.week_label, l.month_label)
        IN  Built(ResolvedId, l.week_label, l.month_label,
                  WithIfSet(WithIfSet(With(p, "status_id", status_id),
                                      "tracker_id", tracker_type_id),
                            "priority_id", priority_id))

\* get_this_year_compy_issues_by_date, get_this_year_compy_hour_by_date
BuildPerYearFilter ==
    /\ qpc = "call"
    /\ query_tool = PerYearReport
    /\ \E status_id \in StatusIds, priority_id \in PriorityIds :
        Built(ResolvedId, week_label, month_label,
              With(WithIfSet(With(PerYearParams(ResolvedId, date_obj),
                                  "status_id", status_id),
                             "priority_id", priority_id),
                   "tracker_id", "7"))

\* get_unagreed_compy_issues_by_year: if name: params['assigned_to_id'] = ...
BuildUnagreedFilter ==
    /\ qpc = "call"
    /\ query_tool = UnagreedReport
    /\ \E status_id \in StatusIds, priority_id \in PriorityIds :
        LET id == IF name_given THEN ResolvedId ELSE Unset
            p  == WithIfSet(UnagreedParams(date_obj), "assigned_to_id", id)
        IN  Built(id, week_label, month_label,
                  WithIfSet(With(p, "status_id", status_id),
                            "priority_id", priority_id))

\* get_this_month_performance_*, get_this_year_performance_*
BuildPerformanceFilter ==
    /\ qpc = "call"
    /\ query_tool \in {MonthPerformanceReport, YearPerformanceReport}
    /\ Built(ResolvedId, week_label, month_label,
             PerformanceParams(ResolvedId,
                 IF query_tool = MonthPerformanceReport THEN "m" ELSE "y"))

\* the weekly plan helper, once per user of the loop
BuildWeeklyPlanFilter ==
    /\ qpc = "call"
    /\ query_tool = WeeklyPlanHelper
    /\ LET l == Labels[date_obj]
       IN  Built(ResolvedId, l.week_label, l.month_label,
                 PerWeekParams(ResolvedId, date_obj, l.week_label, l.month_label))

\* the monthly achievement helper, once per user of the loop
BuildMonthlyAchievementFilter ==
    /\ qpc = "call"
    /\ query_tool = MonthlyAchievementHelper
    /\ \E status_id \in StatusIds :
        LET l == Labels[date_obj]
        IN  Built(ResolvedId, l.week_label, l.month_label,
                  With(PerMonthParams(ResolvedId, date_obj, l.week_label, l.month_label),
                       "status_id", status_id))

NextFilter ==
    \/ BuildPerWeekFilter
    \/ BuildPerMonthFilter
    \/ BuildPerYearFilter
    \/ BuildUnagreedFilter
    \/ BuildPerformanceFilter
    \/ BuildWeeklyPlanFilter
    \/ BuildMonthlyAchievementFilter

SpecFilter == InitFilter /\ [][NextFilter]_vars

PerWeekTools == {PerWeekReport, WeeklyPlanHelper}

PerMonthTools == {PerMonthReport, MonthlyAchievementHelper, MonthPerformanceReport}

PerYearTools == {PerYearReport, UnagreedReport, YearPerformanceReport}

\* the filter holds key k with value v
Holds(k, v) == k \in DOMAIN params /\ params[k] = v

\* C21: every per-week report's filter holds the assignee, the year, the
\* week label and the month label that get_week_and_month_label gives for the
\* selected date; every per-month report's filter holds assignee, year and
\* month label and no week-label key; every per-year report's filter holds
\* assignee and year and neither label key.
C21_EveryReportFilter ==
    qpc = "fetch" =>
        /\ query_tool \in PerWeekTools =>
            /\ "assigned_to_id" \in DOMAIN params
            /\ Holds("cf_38", YearStr(date_obj))
            /\ Holds("cf_41", Labels[date_obj].week_label)
            /\ Holds("cf_42", Labels[date_obj].month_label)
        /\ query_tool \in PerMonthTools =>
            /\ "assigned_to_id" \in DOMAIN params
            /\ Holds("cf_38", YearStr(date_obj))
            /\ Holds("cf_42", Labels[date_obj].month_label)
            /\ "cf_41" \notin DOMAIN params
        /\ query_tool \in PerYearTools =>
            /\ "assigned_to_id" \in DOMAIN params
            /\ Holds("cf_38", YearStr(date_obj))
            /\ "cf_41" \notin DOMAIN params
            /\ "cf_42" \notin DOMAIN params

\* C21, as the code has it: the reports that take a selected date filter by
\* the calendar year of that date; the per-week ones also by the week and
\* month label of the date, the per-month ones by the month label and by no
\* week label, the per-year ones by no label; the filter holds the assignee
\* whenever a member is named, and get_unagreed_compy_issues_by_year called
\* without a name filters by no assignee.  The performance reports take no
\* date and filter by assignee and due date, with no year and no label.
C21_ByDateReportFilter ==
    qpc = "fetch" =>
        /\ query_tool \in ByDateReports =>
            /\ Holds("cf_38", YearStr(date_obj))
            /\ name_given <=> Holds("assigned_to_id", member_id)
            /\ ~name_given => "assigned_to_id" \notin DOMAIN params
        /\ query_tool \in PerWeekTools =>
            /\ Holds("cf_41", Labels[date_obj].week_label)
            /\ Holds("cf_42", Labels[date_obj].month_label)
        /\ query_tool \in PerMonthTools \cap ByDateReports =>
            /\ Holds("cf_42", Labels[date_obj].month_label)
            /\ "cf_41" \notin DOMAIN params
        /\ query_tool \in PerYearTools \cap ByDateReports =>
            /\ "cf_41" \notin DOMAIN params
            /\ "cf_42" \notin DOMAIN params
        /\ query_tool \notin ByDateReports =>
            /\ Holds("assigned_to_id", member_id)
            /\ {"cf_38", "cf_41", "cf_42"} \cap DOMAIN params = {}
            /\ "due_date" \in DOMAIN params

\* a per-month filter built for a date whose week is labelled
C21_Witness ==
    /\ qpc = "fetch"
    /\ query_tool = PerMonthReport
    /\ week_label = "2juCha"
    /\ params.cf_42 = month_label
    /\ "cf_41" \notin DOMAIN params

\* the year of the fiscal month that month label ml names for date d: the
\* previous year for "12wol" in January, the next one for "01wol" in December
FiscalYearOf(d, ml) ==
    IF MonthOf(d) = 1 /\ ml = "12wol" THEN YearOf(d) - 1
    ELSE IF MonthOf(d) = 12 /\ ml = "01wol" THEN YearOf(d) + 1
    ELSE YearOf(d)

\* C28: in every per-week and per-month report the year in the filter is the
\* year of the fiscal month named by the month label in the filter: the
\* previous year for a January date labelled "12wol", the next year for a
\* December date labelled "01wol".
C28_YearOfFiscalMonth ==
    (qpc = "fetch" /\ query_tool \in ByDateReports /\ "cf_42" \in DOMAIN params) =>
        params.cf_38 = IntToStr(FiscalYearOf(date_obj, params.cf_42))

(***************************************************************************)
(* The pagination loops of helper.py: fetch_all_issues, fetch_all_users    *)
(* and fetch_all_projects.  The backend holds the matching records 1..N    *)
(* in a fixed order and answers a page request with those at the           *)
(* positions offset+1 .. offset+limit.  A record is written as its         *)
(* position; the 'name' that fetch_all_users adds to a user leaves the     *)
(* user's position and identity as they are.                               *)
(***************************************************************************)
\* Matching records the backend holds at most.
MaxRecords == 5

Resources == {"issues", "users", "projects"}

Min(a, b) == IF a < b THEN a ELSE b

Max(a, b) == IF a > b THEN a ELSE b

\* the records the backend answers the request req with, of n it holds
BackendPage(n, req) ==
    [i \in 1..Max(0, Min(req.limit, n - req.offset)) |-> req.offset + i]

\* request() answers that the loops take for a page: status 200 and a body
\* holding the resource's key
PageResult == [status_code |-> 200, body |-> "page"]

\* request() answers that the loops raise on: a transport error (status 0),
\* an HTTP error status, status 200 with no body, and status 200 with a body
\* that lacks the resource's key
FailedResults ==
    {[status_code |-> 0, body |-> "none"],
     [status_code |-> 500, body |-> "error"],
     [status_code |-> 200, body |-> "none"],
     [status_code |-> 200, body |-> "no_key"]}

\* if len(issues) < limit: break
IsShort_Empty(page) == Len(page) = 0

\* if len(issues) < limit: break
IsShort(page) == Len(page) < Limit

\* offset += limit
NextOffset_ByOne(off) == off + 1

\* offset += limit
NextOffset(off) == off + Limit

InitFetch ==
    /\ resource \in Resources
    /\ records \in 0..MaxRecords
    /\ total_issues = << >>
    /\ page_offset = 0
    /\ paged_log = << >>
    /\ received = << >>
    /\ result = NoResult
    /\ fetch_pc = "loop"
    /\ fetch_error = ""
    /\ date_obj = FirstDate
    /\ week_label = Unbound
    /\ month_label = Unbound
    /\ step = 0
    /\ pc = "idle"
    /\ NoInvocation
    /\ NoAggregation
    /\ NoReport
    /\ NoFilter
    /\ NoScan

\* paged_params.update({'limit': limit, 'offset': offset}); request(...)
RequestPage ==
    /\ fetch_pc = "loop"
    /\ paged_log' = Append(paged_log, [limit |-> Limit, offset |-> page_offset])
    /\ fetch_pc' = "request"
    /\ UNCHANGED <<resource, records, total_issues, page_offset, received,
                   result, fetch_error>>
    /\ UNCHANGED <<calVars, toolVars, aggVars, thrVars, filterVars, scanVars>>

\* total_issues.extend(issues); offset += limit
ReceiveFullPage ==
    /\ fetch_pc = "request"
    /\ LET page == BackendPage(records, paged_log[Len(paged_log)])
       IN  /\ ~IsShort(page)
           /\ result' = PageResult
           /\ total_issues' = total_issues \o page
           /\ received' = Append(received, page)
           /\ page_offset' = NextOffset(page_offset)
           /\ fetch_pc' = "loop"
    /\ UNCHANGED <<resource, records, paged_log, fetch_error>>
    /\ UNCHANGED <<calVars, toolVars, aggVars, thrVars, filterVars, scanVars>>

\* total_issues.extend(issues); if len(issues) < limit: break; return total_issues
ReceiveShortPage ==
    /\ fetch_pc = "request"
    /\ LET page == BackendPage(records, paged_log[Len(paged_log)])
       IN  /\ IsShort(page)
           /\ result' = PageResult
           /\ total_issues' = total_issues \o page
           /\ received' = Append(received, page)
           /\ fetch_pc' = "returned"
    /\ UNCHANGED <<resource, records, page_offset, paged_log, fetch_error>>
    /\ UNCHANGED <<calVars, toolVars, aggVars, thrVars, filterVars, scanVars>>

\* else: raise RuntimeError(f"Failed to fetch issues: ..."): the frame and
\* the list it built are gone
ReceiveFailure ==
    /\ fetch_pc = "request"
    /\ \E r \in FailedResults : result' = r
    /\ total_issues' = << >>
    /\ fetch_error' = "RuntimeError: Failed to fetch " \o resource
    /\ fetch_pc' = "raised"
    /\ UNCHANGED <<resource, records, page_offset, paged_log, received>>
    /\ UNCHANGED <<calVars, toolVars, aggVars, thrVars, filterVars, scanVars>>

NextFetch ==
    \/ RequestPage
    \/ ReceiveFullPage
    \/ ReceiveShortPage
    \/ ReceiveFailure

SpecFetch == InitFetch /\ [][NextFetch]_vars

\* request() returns within its timeout, so the synchronous loop always
\* takes its next step.
SpecFetchLive == SpecFetch /\ WF_vars(NextFetch)

RECURSIVE Concat(_)
\* the pages one after the other
Concat(pages) ==
    IF pages = << >> THEN << >> ELSE Head(pages) \o Concat(Tail(pages))

\* C22: the loops request one page at a time with the fixed limit and the
\* offsets 0, limit, 2*limit, ...; they stop after the first page shorter
\* than the limit; the list built is the received pages in request order, and
\* the list returned holds each of the N records of the backend exactly once.
C22_PagesInOrderEachRecordOnce ==
    /\ \A i \in 1..Len(paged_log) :
        paged_log[i] = [limit |-> Limit, offset |-> (i - 1) * Limit]
    /\ Len(paged_log) - Len(received) \in {0, 1}
    /\ fetch_pc = "loop" => Len(paged_log) = Len(received)
    /\ \A i \in 1..Len(received) :
        Len(received[i]) < Limit => (i = Len(received) /\ fetch_pc = "returned")
    /\ fetch_pc # "raised" => total_issues = Concat(received)
    /\ fetch_pc = "returned" =>
        /\ Len(received[Len(received)]) < Limit
        /\ total_issues = [i \in 1..records |-> i]

\* three pages, the last one short, give every record once
C22_Witness ==
    /\ fetch_pc = "returned"
    /\ Len(received) = 3
    /\ received[3] # << >>
    /\ Len(total_issues) = records

\* C30: against a backend that holds N records a loop whose requests all
\* succeed ends after exactly N div limit + 1 requests, the last one answered
\* with an empty page when N is a multiple of the limit; a failed page ends
\* it with RuntimeError, the pages collected are dropped and the failed page
\* is not requested again; the loop always ends.
C30_EndsAfterCountedRequests ==
    /\ [](fetch_pc = "returned" =>
            /\ Len(paged_log) = (records \div Limit) + 1
            /\ records % Limit = 0 => received[Len(received)] = << >>)
    /\ [](fetch_pc = "raised" =>
            /\ result \in FailedResults
            /\ total_issues = << >>
            /\ fetch_error = "RuntimeError: Failed to fetch " \o resource
            /\ Len(paged_log) = Len(received) + 1
            /\ Len(paged_log) <= (records \div Limit) + 1)
    /\ [](\A i, j \in 1..Len(paged_log) :
            paged_log[i].offset = paged_log[j].offset => i = j)
    /\ <>(fetch_pc \in {"returned", "raised"})

\* a backend holding two full pages is asked a third time and answers with
\* an empty page
C30_Witness ==
    /\ fetch_pc = "returned"
    /\ records = 2 * Limit
    /\ Len(paged_log) = 3
    /\ received[3] = << >>

\* the users before position i that have a name and an id
ValidBefore(i) == Cardinality({j \in 1..(i - 1) : j <= Len(users) /\ users[j]})

\* C23: an all-members report fetches the issues once for each active user
\* that has a name and an id, in the order of the user list and one user at a
\* time: the members done are the valid users before the current one, and a
\* report that returns has done all of them; a failed page request of any
\* member's fetch ends the report with the error at that request, with no
\* further request and no list returned.
C23_OneFetchPerMemberInOrder ==
    /\ [][(tool \in UsersFirstTools /\ tpc \in {"user", "issues"}) =>
            /\ idx' \in {idx, idx + 1}
            /\ (tpc = "user" /\ tpc' = "issues") => (idx' = idx /\ users[idx])
            /\ (tpc = "issues" /\ tpc' = "user") => (idx' = idx + 1 /\ found' = found + 1)
            /\ (tpc = "issues" /\ tpc' = "issues") => (idx' = idx /\ offset' = offset + Limit)
            /\ failures' > failures =>
                (tpc' = "done" /\ outcome' = "raised" /\ error' = BackendError)]_vars
    /\ [](tool \in UsersFirstTools =>
            /\ tpc \in {"user", "issues"} => found = ValidBefore(idx)
            /\ tpc = "issues" => (idx <= Len(users) /\ users[idx])
            /\ tpc = "filter" => found = ValidBefore(Len(users) + 1)
            /\ (tool = AllMembersTool /\ outcome \in {"list", "None"}) =>
                found = ValidBefore(Len(users) + 1)
            /\ failures > 0 => (failures = 1 /\ outcome = "raised" /\ tpc = "done")
            /\ outcome = "raised" => found <= ValidBefore(idx))

\* three users, the second without a name or an id: two members are fetched
C23_Witness ==
    /\ tool = AllMembersTool
    /\ outcome = "list"
    /\ users = <<TRUE, FALSE, TRUE>>
    /\ found = 2
    /\ failures = 0

\* the tools of the invocation protocol that take a member name
NameTools == {PerMemberTool, JournalTool}

\* nm with the blanks at both ends left out: the longest part of nm that
\* neither starts nor ends with a blank
Trimmed(nm) ==
    LET inner == {<<i, j>> \in (1..Len(nm)) \X (1..Len(nm)) :
                     /\ i <= j
                     /\ nm[i] # " "
                     /\ nm[j] # " "
                     /\ \A k \in 1..Len(nm) : (k < i \/ k > j) => nm[k] = " "}
    IN  IF inner = {} THEN << >>
        ELSE LET p == CHOOSE q \in inner : TRUE IN SubSeq(nm, p[1], p[2])

\* a and b are the same but for the case of their letters
SameButCase(a, b) ==
    /\ Len(a) = Len(b)
    /\ \A i \in 1..Len(a) :
        \/ a[i] = b[i]
        \/ {a[i], b[i]} \in {{"a", "A"}, {"b", "B"}, {"c", "C"}}

\* nm matches a key of the members table, case-insensitively after trimming
MatchesKey(nm) == \E m \in members : SameButCase(Trimmed(m.k), Trimmed(nm))

\* C24: in every tool that takes a member name, a name that matches no key
\* of the members table (compared case-insensitively after trimming) ends the
\* invocation with the member-not-found error before any request is made;
\* no id is put in its place and nothing is returned.
C24_UnknownNameRaisesMemberError ==
    (tool \in NameTools /\ assigned_to # NoName /\ ~MatchesKey(assigned_to)) =>
        /\ requests = 0
        /\ tpc = "done" => (outcome = "raised" /\ error = MemberError)

\* C24, as the code has it: a tool with a required name looks the member up
\* first; a tool with an optional name parses its dates first and looks the
\* member up only for a non-empty name.  A name that is looked up and matches
\* no key (case-insensitively, after trimming) ends the invocation before any
\* request, with the member-not-found error, or with the date error when the
\* tool parses its dates first and the date is malformed; an absent or empty
\* optional name means all members.  The member-not-found error is raised
\* for no name that matches a key.
C24_LookedUpUnknownNameRaises ==
    /\ (tool = PerMemberTool /\ ~MatchesKey(assigned_to)) =>
        /\ requests = 0
        /\ tpc = "done" => (outcome = "raised" /\ error = MemberError)
    /\ (tool = JournalTool /\ Given(assigned_to) /\ ~MatchesKey(assigned_to)) =>
        /\ requests = 0
        /\ tpc = "done" =>
            /\ outcome = "raised"
            /\ error = (IF ParseDate(selected_date).ok THEN MemberError ELSE DateError)
    /\ (tool = JournalTool /\ ~Given(assigned_to)) => error # MemberError
    /\ error = MemberError =>
        /\ tool \in NameTools
        /\ ~MatchesKey(assigned_to)
        /\ requests = 0
        /\ outcome = "raised"
    /\ (tool \in NameTools /\ outcome \in {"list", "None"}) =>
        (MatchesKey(assigned_to) \/ (tool = JournalTool /\ ~Given(assigned_to)))

\* an unknown optional name, looked up after a well-formed date
C24_Witness ==
    /\ tool = JournalTool
    /\ assigned_to = <<"b">>
    /\ tpc = "done"
    /\ outcome = "raised"
    /\ error = MemberError
    /\ requests = 0

(***************************************************************************)
(* The journal scans of main.py: find_agreement_violations_removed and     *)
(* find_hours_increased_after_agreement.  A journal is what                *)
(* get_issue_journals gives: the id of its user, created_on and its        *)
(* changes.  created_on is a time 1, 2, ... or 0 when it is missing or is  *)
(* no ISO time; None is written 0 as well.                                 *)
(***************************************************************************)
\* Journals one scan goes through at most, over all its issues.
MaxJournals == 2
\* The latest created_on of a journal.
MaxStamp == 3

RemovedTool == "find_agreement_violations_removed"
HoursTool == "find_hours_increased_after_agreement"

ScanTools == {RemovedTool, HoursTool}

AUTHORIZED_USER_ID == 5

\* the changes of a journal: the agreement field (cf 17) cleared and filled
\* in, and estimated_hours raised and lowered
Clear == [property |-> "cf", name |-> "17", old_value |-> "x", new_value |-> ""]
Fill == [property |-> "cf", name |-> "17", old_value |-> "", new_value |-> "x"]
Increase == [property |-> "attr", name |-> "estimated_hours", old_value |-> "2", new_value |-> "4"]
Decrease == [property |-> "attr", name |-> "estimated_hours", old_value |-> "4", new_value |-> "2"]

ChangeLists(t) ==
    IF t = RemovedTool
    THEN {<<Clear>>, <<Fill>>, <<Increase, Clear>>}
    ELSE {<<Clear>>, <<Fill>>, <<Increase>>, <<Decrease>>,
          <<Clear, Increase>>, <<Increase, Clear>>, <<Fill, Increase>>}

Authors(t) == IF t = RemovedTool THEN {AUTHORIZED_USER_ID, 7} ELSE {7}

Journals(t) == [user : Authors(t), created_on : 0..MaxStamp, changes : ChangeLists(t)]

\* datetime.fromisoformat(created_on).date(): two times a day
DateOfStamp(ts) == (ts + 1) \div 2

\* float(value or 0) of the hours a change names
Hours(v) == IF v = "" THEN 0 ELSE IF v = "2" THEN 2 ELSE 4

\* change.get("property") == "cf" and change.get("name") == "17", with
\* old_val and not new_val
IsCleared(c) ==
    c.property = "cf" /\ c.name = "17" /\ c.old_value # "" /\ c.new_value = ""

\* change.get("property") == "attr" and change.get("name") == "estimated_hours"
IsHoursChange(c) == c.property = "attr" /\ c.name = "estimated_hours"

\* start_obj <= journal_obj <= end_obj
InRange(d) == start_obj <= d /\ d <= end_obj

IsAuthorized_Nobody(j) == FALSE

\* user_info.get("id") == AUTHORIZED_USER_ID
IsAuthorized(j) == j.user = AUTHORIZED_USER_ID

LaterThan_OrSame(a, b) == a >= b

\* journal_obj > agreement_cleared_date
LaterThan(a, b) == a > b

ClearedAfter_UnsetWhenFilled(cleared, c, ts) ==
    IF IsCleared(c) THEN ts ELSE IF c = Fill THEN 0 ELSE cleared

\* if old_val and not new_val: agreement_cleared_date = journal_obj
ClearedAfter(cleared, c, ts) == IF IsCleared(c) THEN ts ELSE cleared

\* the entry appended for change number k of the journal j, which is the
\* n-th journal scanned
Violation(j, n, k) ==
    [issue_id |-> issue_id, journal |-> n, change |-> k,
     by |-> j.user, on |-> j.created_on,
     old |-> j.changes[k].old_value, new |-> j.changes[k].new_value]

RECURSIVE RemovedIn(_, _, _)
\* for change in journal.get("changes", []): ... violations.append(...), from
\* change number k on
RemovedIn(j, n, k) ==
    IF k > Len(j.changes) THEN << >>
    ELSE (IF IsCleared(j.changes[k]) THEN <<Violation(j, n, k)>> ELSE << >>)
         \o RemovedIn(j, n, k + 1)

RECURSIVE HoursIn(_, _, _, _)
\* for change in journal.get("changes", []): the remembered clearing and the
\* entries appended, from change number k on
HoursIn(j, n, k, st) ==
    IF k > Len(j.changes) THEN st
    ELSE LET c       == j.changes[k]
             cleared == ClearedAfter(st.cleared, c, j.created_on)
             hit     == /\ IsHoursChange(c)
                        /\ Hours(c.new_value) > Hours(c.old_value)
                        /\ cleared # 0
                        /\ LaterThan(j.created_on, cleared)
                        /\ InRange(DateOfStamp(j.created_on))
         IN  HoursIn(j, n, k + 1,
                     [cleared |-> cleared,
                      out |-> IF hit THEN Append(st.out, Violation(j, n, k)) ELSE st.out])

InitScan ==
    /\ scan_tool \in ScanTools
    /\ start_obj \in 1..DateOfStamp(MaxStamp)
    /\ end_obj \in start_obj..DateOfStamp(MaxStamp)
    /\ issue_id = 0
    /\ seen = << >>
    /\ agreement_cleared_date = 0
    /\ violations = << >>
    /\ spc = "scan"
    /\ date_obj = FirstDate
    /\ week_label = Unbound
    /\ month_label = Unbound
    /\ step = 0
    /\ pc = "idle"
    /\ NoInvocation
    /\ NoAggregation
    /\ NoReport
    /\ NoFilter
    /\ NoFetch

\* the journal j has been gone through
Scanned(j, cleared, out) ==
    /\ seen' = Append(seen, [issue_id |-> issue_id, user |-> j.user,
                             created_on |-> j.created_on, changes |-> j.changes])
    /\ agreement_cleared_date' = cleared
    /\ violations' = out
    /\ UNCHANGED <<scan_tool, start_obj, end_obj, issue_id, spc>>
    /\ UNCHANGED <<calVars, toolVars, aggVars, thrVars, filterVars, fetchVars>>

\* for issue in issues: journals = get_issue_journals(issue_id);
\* agreement_cleared_date = None
NextIssue ==
    /\ spc = "scan"
    /\ issue_id < MaxIssues
    /\ issue_id' = issue_id + 1
    /\ agreement_cleared_date' = 0
    /\ UNCHANGED <<scan_tool, start_obj, end_obj, seen, violations, spc>>
    /\ UNCHANGED <<calVars, toolVars, aggVars, thrVars, filterVars, fetchVars>>

\* if isinstance(user_info, dict) and user_info.get("id") == AUTHORIZED_USER_ID: continue
SkipJournalOfAuthorizedUser ==
    /\ spc = "scan"
    /\ scan_tool = RemovedTool
    /\ issue_id >= 1
    /\ Len(seen) < MaxJournals
    /\ \E j \in Journals(scan_tool) :
        /\ IsAuthorized(j)
        /\ Scanned(j, agreement_cleared_date, violations)

\* if not journal_date: continue, and except: continue of fromisoformat
SkipUndatedJournal ==
    /\ spc = "scan"
    /\ issue_id >= 1
    /\ Len(seen) < MaxJournals
    /\ \E j \in Journals(scan_tool) :
        /\ scan_tool = RemovedTool => ~IsAuthorized(j)
        /\ j.created_on = 0
        /\ Scanned(j, agreement_cleared_date, violations)

\* if not (start_obj <= journal_obj <= end_obj): continue
SkipJournalOutOfRange ==
    /\ spc = "scan"
    /\ scan_tool = RemovedTool
    /\ issue_id >= 1
    /\ Len(seen) < MaxJournals
    /\ \E j \in Journals(scan_tool) :
        /\ ~IsAuthorized(j)
        /\ j.created_on # 0
        /\ ~InRange(DateOfStamp(j.created_on))
        /\ Scanned(j, agreement_cleared_date, violations)

\* find_agreement_violations_removed: the changes of a journal in the range
ScanForRemoval ==
    /\ spc = "scan"
    /\ scan_tool = RemovedTool
    /\ issue_id >= 1
    /\ Len(seen) < MaxJournals
    /\ \E j \in Journals(scan_tool) :
        /\ ~IsAuthorized(j)
        /\ j.created_on # 0
        /\ InRange(DateOfStamp(j.created_on))
        /\ Scanned(j, agreement_cleared_date,
                   violations \o RemovedIn(j, Len(seen) + 1, 1))

\* find_hours_increased_after_agreement: the changes of a dated journal
ScanForHours ==
    /\ spc = "scan"
    /\ scan_tool = HoursTool
    /\ issue_id >= 1
    /\ Len(seen) < MaxJournals
    /\ \E j \in Journals(scan_tool) :
        /\ j.created_on # 0
        /\ LET st == HoursIn(j, Len(seen) + 1, 1,
                             [cleared |-> agreement_cleared_date, out |-> violations])
           IN  Scanned(j, st.cleared, st.out)

\* find_agreement_violations_removed: if not issues: return None
ReturnNoIssues ==
    /\ spc = "scan"
    /\ scan_tool = RemovedTool
    /\ issue_id = 0
    /\ spc' = "None"
    /\ UNCHANGED <<scan_tool, start_obj, end_obj, issue_id, seen,
                   agreement_cleared_date, violations>>
    /\ UNCHANGED <<calVars, toolVars, aggVars, thrVars, filterVars, fetchVars>>

\* return violations if violations else None
ReturnViolations ==
    /\ spc = "scan"
    /\ scan_tool = RemovedTool => issue_id >= 1
    /\ spc' = ReturnOrNone(Len(violations))
    /\ UNCHANGED <<scan_tool, start_obj, end_obj, issue_id, seen,
                   agreement_cleared_date, violations>>
    /\ UNCHANGED <<calVars, toolVars, aggVars, thrVars, filterVars, fetchVars>>

NextScan ==
    \/ NextIssue
    \/ SkipJournalOfAuthorizedUser
    \/ SkipUndatedJournal
    \/ SkipJournalOutOfRange
    \/ ScanForRemoval
    \/ ScanForHours
    \/ ReturnNoIssues
    \/ ReturnViolations

SpecScan == InitScan /\ [][NextScan]_vars

\* the changes gone through so far, as <<journal number, change number>>
ChangesSeen ==
    {<<n, k>> \in (1..Len(seen)) \X (1..2) : k <= Len(seen[n].changes)}

\* the changes in the list built
ReportedChanges == {<<violations[i].journal, violations[i].change>> : i \in 1..Len(violations)}

\* change k of journal n sets the agreement field from a value to empty
ClearsAgreement(n, k) ==
    LET c == seen[n].changes[k]
    IN  c.property = "cf" /\ c.name = "17" /\ c.old_value = "x" /\ c.new_value = ""

\* journal n has a date and it lies in [start_obj, end_obj]
DatedInRange(n) ==
    /\ seen[n].created_on \in 1..MaxStamp
    /\ DateOfStamp(seen[n].created_on) \in start_obj..end_obj

RaisesHours(n, k) ==
    LET c == seen[n].changes[k]
    IN  c = Increase

\* journal m is listed before journal n in the same issue, has a time and
\* clears the agreement
ClearingBefore(m, n) ==
    /\ m < n
    /\ seen[m].issue_id = seen[n].issue_id
    /\ seen[m].created_on # 0
    /\ \E k \in 1..Len(seen[m].changes) : ClearsAgreement(m, k)

RECURSIVE LastClearing(_, _, _, _)
LastClearing(n, k, m, c) ==
    IF m = 0 THEN 0
    ELSE IF c = 0 THEN LastClearing(n, k, m - 1, IF m > 1 THEN Len(seen[m - 1].changes) ELSE 0)
    ELSE IF /\ seen[m].issue_id = seen[n].issue_id
            /\ seen[m].created_on # 0
            /\ (m < n \/ c <= k)
            /\ ClearsAgreement(m, c)
         THEN seen[m].created_on
         ELSE LastClearing(n, k, m, c - 1)

====
